---- MODULE Spec2Model ----
(***************************************************************************)
(* Crypto checkout simulator: the transaction store and the checkout,      *)
(* webhook, health and list routes, as handlers of one Node.js process     *)
(* running against one relational store.                                   *)
(*                                                                         *)
(* A step of the model is one run-to-completion segment of a handler (the  *)
(* code between two awaits that yield to the event loop) or one statement  *)
(* executed by the database.  An await of an already settled promise       *)
(* (ensureConnection once isInitialized, processWebhook on a type that     *)
(* issues no query) continues in the same segment.                         *)
(*                                                                         *)
(* The store is the one the development migration leaves (schema and       *)
(* sample row); each route's TransactionService has finished connecting.   *)
(* Statements handed to the store by different requests execute in any     *)
(* order (a connection pool), each atomically, and any of them may reject. *)
(* Only the order of clock readings matters to the code, so a reading      *)
(* either repeats the previous instant or returns the next one.            *)
(*                                                                         *)
(* Spec is the server under requests to its two writing routes.  StoreSpec *)
(* is the TransactionService under direct calls of createTransaction,      *)
(* whose arguments the routes never produce (a charge id already stored).  *)
(* ServiceSpec adds GET /health and GET /transactions to Spec, running     *)
(* beside the writes.  ListSpec is GET /transactions alone over a store    *)
(* that does not change, for a range of stores and query strings, a        *)
(* second request asking for the page after the first.                     *)
(* LookupSpec is GET /transactions/:id and findTransactionByChargeId over   *)
(* the same stores.  ConnectSpec is a TransactionService from its          *)
(* construction until it has connected, operations being called            *)
(* meanwhile; RetrySpec is createConnection alone, called with a range of  *)
(* arguments.                                                              *)
(***************************************************************************)
EXTENDS Integers, Sequences, FiniteSets, TLC

(* ----------------------------- bounds -------------------------------- *)

\* Webhook deliveries, checkout requests and read requests (health, list)
\* the environment sends, and the requests of all kinds together.
MaxWebhooks == 2
MaxCheckouts == 2
MaxReads == 2
MaxRequests == 3

\* Store operations called before the service has connected.
MaxOperations == 2

(* --------------------------- value domains --------------------------- *)

\* SQL NULL / JavaScript undefined for a nullable column or argument; a
\* present value v is <<v>>.
NULL == <<>>

Some(v) == <<v>>

IsNull(x) == x = NULL

\* webhookSchema's three event types, and one the provider may add later.
KnownTypes == {"charge:created", "charge:confirmed", "charge:failed"}

EventTypes == KnownTypes \cup {"charge:pending"}

\* x-cc-webhook-signature headers, as <<prefix, rest>>: a well-prefixed one,
\* an ill-prefixed one, and the header missing (undefined).
Signatures == {<<"sha256=", "abc">>, <<"md5=", "abc">>, NULL}

\* A field of a JSON request body: a number, a string, or the field absent.
Number(n) == [number |-> n]

String(s) == [string |-> s]

Undefined == [undefined |-> TRUE]

IsNumber(x) == DOMAIN x = {"number"}

IsString(x) == DOMAIN x = {"string"}

\* Request bodies of POST /checkout: amount (in cents when a number), email.
Amounts == {Number(9999), Number(0), String("abc"), Undefined}

Emails == {String("test@example.com"), String("not-an-email"), Undefined}

\* created_at of a webhook payload: an ISO 8601 date, or some other text.
IsoDate == "2024-01-15T10:30:00Z"

NoDate == "yesterday"

\* A charge id no transaction of this service carries.
ForeignCharge == "foreign-charge"

WebhookSlots == 1..MaxWebhooks

CheckoutSlots == 1..MaxCheckouts

ReadSlots == 1..MaxReads

OperationSlots == 1..MaxOperations

(* ------------------------------- state ------------------------------- *)

VARIABLES
  transactions,    \* table transactions: primary key id -> row
  webhook_events,  \* table webhook_events: set of rows
  clock,           \* the instant the last new Date() / Date.now() returned
  nextUuid,        \* number of uuidv4() calls made so far
  events,          \* events the provider has issued: event number -> event
  webhooks,        \* POST /webhook deliveries: slot -> handler state
  checkouts,       \* POST /checkout requests: slot -> handler state
  reads,           \* GET requests and direct lookups: slot -> handler state
  service,         \* the TransactionService instance: its db handle and isInitialized
  connections,     \* createConnection calls made so far: call number -> call state
  operations       \* store operations called while the service connects: slot -> state

vars ==
  <<transactions, webhook_events, clock, nextUuid, events, webhooks, checkouts, reads,
    service, connections, operations>>

(* ------------------------- pure functions ---------------------------- *)

\* uuid's v4(): a value no earlier call returned.
uuidv4(n) == "uuid-" \o ToString(n)

\* The provider's identifier of its n-th event (payload field id).
WebhookId(n) == "evt-" \o ToString(n)

\* validateWebhookSignature accepting every header that is present.
validateWebhookSignature_AnyHeader(signature) == ~ IsNull(signature)

\* !!(signature && signature.startsWith("sha256="))
validateWebhookSignature(signature) ==
  ~ IsNull(signature) /\ signature[1] = "sha256="

\* Joi's string().isoDate()
IsIsoDate(text) == text \in {IsoDate}

\* webhookSchema with id declared Joi.string() without required().
webhookSchemaError_IdOptional(body) ==
  \/ IsNull(body.type) \/ body.type[1] \notin KnownTypes
  \/ IsNull(body.created_at) \/ ~ IsIsoDate(body.created_at[1])
  \/ IsNull(body.chargeId)
  \/ IsNull(body.code)
  \/ IsNull(body.name)

\* webhookSchema: id, type, created_at, data.id (chargeId), data.code and
\* data.name are required(); type is one of the three valid(...) literals;
\* created_at is an ISO date.
webhookSchemaError(body) ==
  \/ IsNull(body.id)
  \/ IsNull(body.type) \/ body.type[1] \notin KnownTypes
  \/ IsNull(body.created_at) \/ ~ IsIsoDate(body.created_at[1])
  \/ IsNull(body.chargeId)
  \/ IsNull(body.code)
  \/ IsNull(body.name)

\* Joi's string().email()
IsEmail(text) == text \in {"test@example.com", "other@example.com"}

\* Joi's number() on a string that is not the text of a number: no value.
IsNumeric(text) == text \notin {"abc"}

\* checkoutSchema with email declared Joi.string().required(), without email().
checkoutSchemaError_AnyEmailText(body) ==
  \/ ~ (IsNumber(body.amount) \/ (IsString(body.amount) /\ IsNumeric(body.amount.string)))
  \/ (IsNumber(body.amount) /\ ~ (body.amount.number > 0))
  \/ ~ IsString(body.email)

\* checkoutSchema: amount a required positive number, email a required,
\* syntactically valid address.
checkoutSchemaError(body) ==
  \/ ~ (IsNumber(body.amount) \/ (IsString(body.amount) /\ IsNumeric(body.amount.string)))
  \/ (IsNumber(body.amount) /\ ~ (body.amount.number > 0))
  \/ ~ IsString(body.email)
  \/ ~ IsEmail(body.email.string)

\* The value validate() returns for a body without error: the CheckoutRequest.
checkoutSchemaValue(body) ==
  [amount |-> body.amount.number, email |-> body.email.string]

\* processWebhook with the break of case "charge:created" missing: the case
\* falls through to "charge:confirmed".
processWebhook_CreatedFallsThrough(type, now) ==
  CASE type \in {"charge:created", "charge:confirmed"} ->
         Some([status |-> "completed", confirmedAt |-> Some(now)])
    [] type = "charge:failed" -> Some([status |-> "failed", confirmedAt |-> NULL])
    [] OTHER -> NULL

\* processWebhook with case "charge:failed" passing new Date() as confirmedAt,
\* as case "charge:confirmed" does.
processWebhook_FailedStampsConfirmedAt(type, now) ==
  CASE type = "charge:created" -> NULL
    [] type = "charge:confirmed" -> Some([status |-> "completed", confirmedAt |-> Some(now)])
    [] type = "charge:failed" -> Some([status |-> "failed", confirmedAt |-> Some(now)])
    [] OTHER -> NULL

\* processWebhook with case "charge:failed" passing "expired", which
\* updateTransactionStatus accepts.
processWebhook_FailedExpires(type, now) ==
  CASE type = "charge:created" -> NULL
    [] type = "charge:confirmed" -> Some([status |-> "completed", confirmedAt |-> Some(now)])
    [] type = "charge:failed" -> Some([status |-> "expired", confirmedAt |-> NULL])
    [] OTHER -> NULL

\* processWebhook's switch: the arguments of the updateTransactionStatus call
\* it makes, or NULL when the type makes none.
processWebhook(type, now) ==
  CASE type = "charge:created" -> NULL
    [] type = "charge:confirmed" -> Some([status |-> "completed", confirmedAt |-> Some(now)])
    [] type = "charge:failed" -> Some([status |-> "failed", confirmedAt |-> NULL])
    [] OTHER -> NULL

\* updateTransactionStatus binding null for confirmed_at whatever it is given.
updateTransactionStatus_DropsConfirmedAt(coinbaseChargeId, status, confirmedAt, now) ==
  [ status |-> status,
    confirmed_at |-> NULL,
    updated_at |-> now,
    coinbase_charge_id |-> coinbaseChargeId ]

\* The parameters updateTransactionStatus binds to its UPDATE
\* (confirmedAt || null, new Date()).
updateTransactionStatus(coinbaseChargeId, status, confirmedAt, now) ==
  [ status |-> status,
    confirmed_at |-> confirmedAt,
    updated_at |-> now,
    coinbase_charge_id |-> coinbaseChargeId ]

\* The UPDATE without its WHERE clause.
MatchesUpdate_NoWhere(row, q) == TRUE

\* UPDATE transactions SET status, confirmed_at, updated_at
\* WHERE coinbase_charge_id = q.coinbase_charge_id
MatchesUpdate(row, q) == row.coinbase_charge_id = Some(q.coinbase_charge_id)

\* The UPDATE also setting created_at.
ApplyUpdate_TouchesCreatedAt(table, q) ==
  [ id \in DOMAIN table |->
      IF MatchesUpdate(table[id], q)
      THEN [ table[id] EXCEPT !.status = q.status,
                              !.confirmed_at = q.confirmed_at,
                              !.updated_at = q.updated_at,
                              !.created_at = q.updated_at ]
      ELSE table[id] ]

ApplyUpdate(table, q) ==
  [ id \in DOMAIN table |->
      IF MatchesUpdate(table[id], q)
      THEN [ table[id] EXCEPT !.status = q.status,
                              !.confirmed_at = q.confirmed_at,
                              !.updated_at = q.updated_at ]
      ELSE table[id] ]

AffectedRows(table, q) ==
  Cardinality({ id \in DOMAIN table : MatchesUpdate(table[id], q) })

\* SELECT * FROM transactions WHERE id = ?  (first row or null)
getTransactionById(table, id) ==
  IF id \in DOMAIN table THEN Some(table[id]) ELSE NULL

\* SELECT * FROM transactions WHERE coinbase_charge_id = ?
findTransactionByChargeId(table, chargeId) ==
  LET hits == { id \in DOMAIN table : table[id].coinbase_charge_id = Some(chargeId) }
  IN  IF hits = {} THEN NULL ELSE Some(table[CHOOSE id \in hits : TRUE])

\* GET /api/transactions/:id
GetTransactionRoute(table, id) ==
  LET transaction == getTransactionById(table, id)
  IN  IF IsNull(transaction)
      THEN [status |-> 404, body |-> [success |-> FALSE, error |-> "Transaction not found"]]
      ELSE [status |-> 200, body |-> [success |-> TRUE, data |-> transaction[1]]]

(* ------------------------ database connection ----------------------- *)

\* createConnection's default parameters.
DefaultMaxRetries == 10

DefaultInitialDelay == 1000

\* The callers of createConnection: the constructor's initializeDatabase,
\* the initializeDatabase of operation o's ensureConnection, a direct call.
ByConstructor == [kind |-> "constructor"]

ByOperation(o) == [kind |-> "operation", o |-> o]

Direct == [kind |-> "direct"]

\* The delay growing by initialDelay with each attempt.
delayMs_Linear(initialDelay, attempt) == initialDelay * attempt

\* const delayMs = initialDelay * Math.pow(2, attempt - 1)
delayMs(initialDelay, attempt) == initialDelay * 2 ^ (attempt - 1)

\* createConnection(maxRetries, initialDelay) up to its first yield: the
\* first attempt is under way, or, when the loop has nothing to run, the
\* final throw lastError has thrown undefined.
createConnection(maxRetries, initialDelay, by) ==
  [ by |-> by, maxRetries |-> maxRetries, initialDelay |-> initialDelay,
    pc |-> IF 1 <= maxRetries THEN "connecting" ELSE "thrown",
    attempt |-> IF 1 <= maxRetries THEN 1 ELSE 0,
    lastError |-> NULL, waits |-> <<>>, connection |-> NULL ]

\* The state of a call whose first attempt connected.
Connected(by) ==
  [ createConnection(DefaultMaxRetries, DefaultInitialDelay, by)
      EXCEPT !.pc = "returned", !.connection = Some(1) ]

IdleOperation == [pc |-> "idle"]

\* A service that has finished connecting: the constructor's
\* initializeDatabase has set db and isInitialized.
ServiceReady ==
  /\ service = [db |-> Some(1), isInitialized |-> TRUE]
  /\ connections = <<Connected(ByConstructor)>>
  /\ operations = [o \in OperationSlots |-> IdleOperation]

\* new TransactionService(): the constructor has called initializeDatabase,
\* whose createConnection is under way.
ServiceConstructed ==
  /\ service = [db |-> NULL, isInitialized |-> FALSE]
  /\ connections = <<createConnection(DefaultMaxRetries, DefaultInitialDelay, ByConstructor)>>
  /\ operations = [o \in OperationSlots |-> IdleOperation]

\* The rest of initializeDatabase (and of the ensureConnection awaiting it)
\* when the createConnection call of this caller returns connection k: db
\* and isInitialized are set, and an operation still waiting issues its
\* query.  A direct call has no such caller.
InitializeResolves(by, k) ==
  /\ service' = IF by.kind = "direct" THEN service
                ELSE [db |-> Some(k), isInitialized |-> TRUE]
  /\ operations' =
       IF by.kind = "operation" /\ operations[by.o].pc = "ensure"
       THEN [operations EXCEPT ![by.o].pc = "query", ![by.o].db = Some(k)]
       ELSE operations

\* ... and when it throws: initializeDatabase rethrows, the constructor logs
\* the error, ensureConnection throws "Database connection failed" to its
\* operation.
InitializeRejects(by) ==
  /\ UNCHANGED service
  /\ operations' =
       IF by.kind = "operation" /\ operations[by.o].pc = "ensure"
       THEN [operations EXCEPT ![by.o].pc = "failed"]
       ELSE operations

Frame ==
  UNCHANGED <<transactions, webhook_events, clock, nextUuid, events, webhooks, checkouts, reads>>

\* Attempt number attempt of call k connects: the call returns the connection.
AttemptSucceeds(k) ==
  /\ connections[k].pc = "connecting"
  /\ connections' = [connections EXCEPT ![k].pc = "returned", ![k].connection = Some(k)]
  /\ InitializeResolves(connections[k].by, k)
  /\ Frame

\* Attempt number attempt of call k fails: the last one throws its error, an
\* earlier one starts the delay.
AttemptFails(k) ==
  /\ connections[k].pc = "connecting"
  /\ LET call == connections[k]
     IN  IF call.attempt = call.maxRetries
         THEN /\ connections' = [connections EXCEPT ![k].pc = "thrown",
                                   ![k].lastError = Some(call.attempt)]
              /\ InitializeRejects(call.by)
         ELSE /\ connections' = [connections EXCEPT ![k].pc = "waiting",
                                   ![k].lastError = Some(call.attempt),
                                   ![k].waits = Append(call.waits,
                                                       delayMs(call.initialDelay, call.attempt))]
              /\ UNCHANGED <<service, operations>>
  /\ Frame

\* The delay of call k is over: the loop goes on to the next attempt.
DelayElapses(k) ==
  /\ connections[k].pc = "waiting"
  /\ connections' = [connections EXCEPT ![k].pc = "connecting",
                       ![k].attempt = connections[k].attempt + 1]
  /\ UNCHANGED <<service, operations>>
  /\ Frame

\* A store operation is called: ensureConnection returns at once when
\* isInitialized, and the query goes to this.db; otherwise it calls
\* initializeDatabase and waits for it or for its 15 s timer.
OperationCalls(o) ==
  /\ operations[o].pc = "idle"
  /\ \A n \in OperationSlots : n < o => operations[n].pc # "idle"
  /\ IF service.isInitialized
     THEN /\ operations' = [operations EXCEPT ![o] =
               [pc |-> "query", call |-> NULL, db |-> service.db]]
          /\ UNCHANGED connections
     ELSE /\ connections' = Append(connections,
               createConnection(DefaultMaxRetries, DefaultInitialDelay, ByOperation(o)))
          /\ operations' = [operations EXCEPT ![o] =
               [pc |-> "ensure", call |-> Some(Len(connections) + 1), db |-> NULL]]
  /\ UNCHANGED service
  /\ Frame

\* The 15 s timer of operation o's ensureConnection fires first: the
\* operation fails, its createConnection call goes on.  An attempt takes at
\* most 10 s (connectTimeout), so the call is past its first attempt.
EnsureTimesOut(o) ==
  /\ operations[o].pc = "ensure"
  /\ connections[operations[o].call[1]].attempt >= 2
  /\ operations' = [operations EXCEPT ![o].pc = "failed"]
  /\ UNCHANGED <<service, connections>>
  /\ Frame

(* --------------------------- initial state --------------------------- *)

\* The row the schema's sample INSERT leaves in transactions: the migration
\* executes every statement of the schema file, the INSERT included; it names
\* no confirmed_at, so the column is NULL, and CURRENT_TIMESTAMP / NOW() is
\* instant 0.
SeedTransaction ==
  [ id |-> "test-transaction-1",
    checkout_id |-> "test-checkout-1",
    email |-> "test@example.com",
    amount |-> 9999,
    currency |-> "USD",
    status |-> "completed",
    coinbase_charge_id |-> Some("test-charge-1"),
    coinbase_charge_code |-> "CHG-TEST123",
    payment_url |-> "https://superai.coinbase.com/pay/CHG-TEST123",
    expires_at |-> 15 * 60 * 1000,
    confirmed_at |-> NULL,
    created_at |-> 0,
    updated_at |-> 0 ]

IdleWebhook == [pc |-> "idle"]

IdleCheckout == [pc |-> "idle"]

IdleRead == [pc |-> "idle"]

Init ==
  /\ transactions = [id \in {SeedTransaction.id} |-> SeedTransaction]
  /\ webhook_events = {}
  /\ clock = 0
  /\ nextUuid = 0
  /\ events = <<>>
  /\ webhooks = [w \in WebhookSlots |-> IdleWebhook]
  /\ checkouts = [c \in CheckoutSlots |-> IdleCheckout]
  /\ reads = [r \in ReadSlots |-> IdleRead]
  /\ ServiceReady

(* ------------------------- environment ------------------------------ *)

\* Requests the server has received so far.
Received ==
  Cardinality({ w \in WebhookSlots : webhooks[w].pc # "idle" })
    + Cardinality({ c \in CheckoutSlots : checkouts[c].pc # "idle" })
    + Cardinality({ r \in ReadSlots : reads[r].pc # "idle" })

\* The instants a reading of the clock can return: time has stood still
\* since the last reading, or has moved on.
Instants == {clock, clock + 1}

\* Charge ids an event of the provider can name: the charges createCharge
\* has returned, and a charge of some other merchant.
IssuedCharges ==
  {ForeignCharge}
    \cup { checkouts[c].coinbaseCharge[1].id :
             c \in { d \in CheckoutSlots : /\ checkouts[d].pc \in {"insert", "respond", "done"}
                                          /\ ~ IsNull(checkouts[d].coinbaseCharge) } }

\* The payload of the provider's e-th event.
EventBody(log, e) ==
  [ id |-> Some(WebhookId(e)), type |-> Some(log[e].type),
    created_at |-> Some(IsoDate), chargeId |-> Some(log[e].chargeId),
    code |-> Some("CHG-FOREIGN"), name |-> Some("Crypto Checkout") ]

\* Payloads that are not the provider's: a charge:confirmed payload lacking
\* one required field, or carrying a created_at that is no date.
RequiredFields == {"id", "type", "created_at", "chargeId", "code", "name"}

ForgedBody ==
  [ id |-> Some("evt-forged"), type |-> Some("charge:confirmed"),
    created_at |-> Some(IsoDate), chargeId |-> Some(ForeignCharge),
    code |-> Some("CHG-FOREIGN"), name |-> Some("Crypto Checkout") ]

MalformedBodies ==
  { [ f \in RequiredFields |-> IF f = missing THEN NULL ELSE ForgedBody[f] ] :
      missing \in RequiredFields }
    \cup { [ForgedBody EXCEPT !.created_at = Some(NoDate)] }

(* --------------------------- POST /webhook --------------------------- *)

WebhookResponse(status, body) == [status |-> status, body |-> body]

\* The handler validating the payload before it authenticates.
WebhookHandler_ValidatesFirst(signature, body, now) ==
  LET base == [ signature |-> signature, body |-> body,
                query |-> NULL, result |-> NULL, response |-> NULL ]
      call == IF IsNull(body.type) THEN NULL ELSE processWebhook(body.type[1], now)
  IN  IF webhookSchemaError(body)
      THEN [base EXCEPT !.response = Some(WebhookResponse(400, [error |-> "Invalid payload"]))]
      ELSE IF ~ validateWebhookSignature(signature)
      THEN [base EXCEPT !.response = Some(WebhookResponse(401, [error |-> "Invalid signature"]))]
      ELSE IF IsNull(call)
      THEN [base EXCEPT !.response = Some(WebhookResponse(200, [success |-> TRUE]))]
      ELSE [base EXCEPT !.query =
              Some(updateTransactionStatus(body.chargeId[1], call[1].status,
                                           call[1].confirmedAt, now))]

\* router.post("/webhook") up to its first yield: authentication, schema
\* validation, processWebhook's switch and, for a type that updates, the
\* UPDATE handed to the connection.
WebhookHandler(signature, body, now) ==
  LET base == [ signature |-> signature, body |-> body,
                query |-> NULL, result |-> NULL, response |-> NULL ]
      call == IF IsNull(body.type) THEN NULL ELSE processWebhook(body.type[1], now)
  IN  IF ~ validateWebhookSignature(signature)
      THEN [base EXCEPT !.response = Some(WebhookResponse(401, [error |-> "Invalid signature"]))]
      ELSE IF webhookSchemaError(body)
      THEN [base EXCEPT !.response = Some(WebhookResponse(400, [error |-> "Invalid payload"]))]
      ELSE IF IsNull(call)
      THEN [base EXCEPT !.response = Some(WebhookResponse(200, [success |-> TRUE]))]
      ELSE [base EXCEPT !.query =
              Some(updateTransactionStatus(body.chargeId[1], call[1].status,
                                           call[1].confirmedAt, now))]

\* The handler reads the clock only on the path that updates.
WebhookStart(w, signature, body) ==
  \E now \in Instants :
    LET h == WebhookHandler(signature, body, now)
    IN  /\ now = clock \/ ~ IsNull(h.query)
        /\ clock' = now
        /\ webhooks' = [webhooks EXCEPT ![w] =
             [ pc |-> IF IsNull(h.response) THEN "query" ELSE "done",
               signature |-> h.signature, body |-> h.body, query |-> h.query,
               result |-> h.result, response |-> h.response ]]

\* A delivery reaches slot w: an event the provider issued before, an event
\* it issues now (signed by the provider), or a body lacking required fields.
WebhookReceive(w) ==
  /\ webhooks[w].pc = "idle"
  /\ \A v \in WebhookSlots : v < w => webhooks[v].pc # "idle"
  /\ Received < MaxRequests
  /\ \/ \E signature \in Signatures, e \in 1..Len(events) :
          /\ WebhookStart(w, signature, EventBody(events, e))
          /\ UNCHANGED events
     \/ \E signature \in Signatures, body \in MalformedBodies :
          /\ WebhookStart(w, signature, body)
          /\ UNCHANGED events
     \/ \E type \in EventTypes, chargeId \in IssuedCharges :
          /\ events' = Append(events, [type |-> type, chargeId |-> chargeId])
          /\ WebhookStart(w, <<"sha256=", "abc">>, EventBody(events', Len(events')))
  /\ UNCHANGED <<transactions, webhook_events, nextUuid, checkouts, reads,
               service, connections, operations>>

\* The database executes the UPDATE of delivery w.
DbExecuteUpdate(w) ==
  /\ webhooks[w].pc = "query"
  /\ LET q == webhooks[w].query[1]
     IN  /\ transactions' = ApplyUpdate(transactions, q)
         /\ webhooks' = [webhooks EXCEPT ![w].pc = "respond",
                           ![w].result = Some([ok |-> TRUE,
                                               affectedRows |-> AffectedRows(transactions, q)])]
  /\ UNCHANGED <<webhook_events, clock, nextUuid, events, checkouts, reads,
               service, connections, operations>>

\* The query of delivery w rejects (connection lost, server error).
DbRejectUpdate(w) ==
  /\ webhooks[w].pc = "query"
  /\ webhooks' = [webhooks EXCEPT ![w].pc = "respond",
                    ![w].result = Some([ok |-> FALSE, affectedRows |-> 0])]
  /\ UNCHANGED <<transactions, webhook_events, clock, nextUuid, events, checkouts, reads,
               service, connections, operations>>

\* The handler answering 500 when the UPDATE matched no row.
WebhookSettled_NoRowIsAnError(result) ==
  IF result.ok /\ result.affectedRows > 0
  THEN WebhookResponse(200, [success |-> TRUE])
  ELSE WebhookResponse(500, [error |-> "Internal server error"])

\* The handler answering 200 whether processWebhook resolves or rejects.
WebhookSettled_SwallowsError(result) == WebhookResponse(200, [success |-> TRUE])

\* The rest of router.post("/webhook") after processWebhook settles:
\* res.status(200) or the catch block's res.status(500).
WebhookSettled(result) ==
  IF result.ok
  THEN WebhookResponse(200, [success |-> TRUE])
  ELSE WebhookResponse(500, [error |-> "Internal server error"])

WebhookRespond(w) ==
  /\ webhooks[w].pc = "respond"
  /\ webhooks' = [webhooks EXCEPT ![w].pc = "done",
                    ![w].response = Some(WebhookSettled(webhooks[w].result[1]))]
  /\ UNCHANGED <<transactions, webhook_events, clock, nextUuid, events, checkouts, reads,
               service, connections, operations>>

(* --------------------------- POST /checkout -------------------------- *)

\* Date.prototype.toISOString: the ISO 8601 text of an instant, which keeps
\* its milliseconds.
toISOString(instant) == [iso |-> instant]

\* new Date(text) of such a text: the instant it denotes.
NewDate(text) == text.iso

\* createCharge returning the charge id of the sample data instead of a uuid.
createCharge_FixedId(n, now) ==
  [ id |-> "test-charge-1",
    code |-> "CHG-" \o ToString(n),
    hosted_url |-> "https://superai.coinbase.com/pay/" \o "CHG-" \o ToString(n),
    expires_at |-> toISOString(now + 15 * 60 * 1000) ]

\* CoinbaseService.createCharge: the n-th uuid is the charge id.
createCharge(n, now) ==
  [ id |-> uuidv4(n),
    code |-> "CHG-" \o ToString(n),
    hosted_url |-> "https://superai.coinbase.com/pay/" \o "CHG-" \o ToString(n),
    expires_at |-> toISOString(now + 15 * 60 * 1000) ]

\* createTransaction leaving coinbase_charge_id out of the row.
createTransaction_DropsChargeId(request, coinbaseData, n, now) ==
  [ id |-> uuidv4(n),
    checkout_id |-> uuidv4(n + 1),
    email |-> request.email,
    amount |-> request.amount,
    currency |-> "USD",
    status |-> "pending",
    coinbase_charge_id |-> NULL,
    coinbase_charge_code |-> coinbaseData.code,
    payment_url |-> coinbaseData.hosted_url,
    expires_at |-> NewDate(coinbaseData.expires_at),
    confirmed_at |-> NULL,
    created_at |-> now,
    updated_at |-> now ]

\* TransactionService.createTransaction: the object it builds and inserts.
createTransaction(request, coinbaseData, n, now) ==
  [ id |-> uuidv4(n),
    checkout_id |-> uuidv4(n + 1),
    email |-> request.email,
    amount |-> request.amount,
    currency |-> "USD",
    status |-> "pending",
    coinbase_charge_id |-> Some(coinbaseData.id),
    coinbase_charge_code |-> coinbaseData.code,
    payment_url |-> coinbaseData.hosted_url,
    expires_at |-> NewDate(coinbaseData.expires_at),
    confirmed_at |-> NULL,
    created_at |-> now,
    updated_at |-> now ]

\* INSERT INTO transactions: the primary key and UNIQUE(checkout_id) of the
\* schema reject a duplicate.
InsertConflicts(table, row) ==
  \/ row.id \in DOMAIN table
  \/ \E id \in DOMAIN table : table[id].checkout_id = row.checkout_id

\* The INSERT replacing the table's rows by the new one.
InsertRow_ReplacesTable(table, row) == [ id \in {row.id} |-> row ]

InsertRow(table, row) ==
  [ id \in DOMAIN table \cup {row.id} |-> IF id = row.id THEN row ELSE table[id] ]

\* router.post("/checkout") up to the first yield: validation, then the call
\* of createCharge, which waits on its timer.
CheckoutReceive(c) ==
  /\ checkouts[c].pc = "idle"
  /\ \A d \in CheckoutSlots : d < c => checkouts[d].pc # "idle"
  /\ Received < MaxRequests
  /\ \E amount \in Amounts, email \in Emails :
       LET body == [amount |-> amount, email |-> email]
       IN  checkouts' = [checkouts EXCEPT ![c] =
             IF checkoutSchemaError(body)
             THEN [ pc |-> "done", body |-> body, request |-> NULL,
                    coinbaseCharge |-> NULL, transaction |-> NULL, result |-> NULL,
                    response |-> Some([status |-> 400,
                                       body |-> [success |-> FALSE, error |-> "Invalid request"]]) ]
             ELSE [ pc |-> "createCharge", body |-> body,
                    request |-> Some(checkoutSchemaValue(body)),
                    coinbaseCharge |-> NULL, transaction |-> NULL, result |-> NULL,
                    response |-> NULL ]]
  /\ UNCHANGED <<transactions, webhook_events, clock, nextUuid, events, webhooks, reads,
               service, connections, operations>>

\* createCharge's timer fires: the charge is returned, createTransaction
\* builds the row and hands the INSERT to the connection.
CheckoutCreateCharge(c) ==
  /\ checkouts[c].pc = "createCharge"
  /\ \E now \in Instants :
       LET charge == createCharge(nextUuid + 1, now)
           row == createTransaction(checkouts[c].request[1], charge, nextUuid + 2, now)
       IN  /\ clock' = now
           /\ checkouts' = [checkouts EXCEPT ![c].pc = "insert",
                              ![c].coinbaseCharge = Some(charge),
                              ![c].transaction = Some(row)]
  /\ nextUuid' = nextUuid + 3
  /\ UNCHANGED <<transactions, webhook_events, events, webhooks, reads,
               service, connections, operations>>

\* The catch block of router.post("/checkout").
CheckoutCaught ==
  [status |-> 500, body |-> [success |-> FALSE, error |-> "Internal server error"]]

\* The route going on to createTransaction, with an empty charge, when
\* createCharge rejects.
AfterCreateChargeRejects_InsertsAnyway(slot) ==
  [ slot EXCEPT !.pc = "insert",
      !.transaction =
        Some(createTransaction(slot.request[1],
                               [id |-> "", code |-> "", hosted_url |-> "", expires_at |-> toISOString(0)],
                               -1, 0)) ]

\* router.post("/checkout") when the awaited createCharge rejects: control
\* passes to the catch block, createTransaction is not called.
AfterCreateChargeRejects(slot) ==
  [slot EXCEPT !.pc = "done", !.response = Some(CheckoutCaught)]

\* createCharge rejects (its catch block rethrows "Failed to create payment
\* session").
CheckoutChargeFails(c) ==
  /\ checkouts[c].pc = "createCharge"
  /\ checkouts' = [checkouts EXCEPT ![c] = AfterCreateChargeRejects(checkouts[c])]
  /\ UNCHANGED <<transactions, webhook_events, clock, nextUuid, events, webhooks, reads,
               service, connections, operations>>

\* The database executes the INSERT of checkout c.
DbExecuteInsert(c) ==
  /\ checkouts[c].pc = "insert"
  /\ LET row == checkouts[c].transaction[1]
     IN  IF InsertConflicts(transactions, row)
         THEN /\ UNCHANGED transactions
              /\ checkouts' = [checkouts EXCEPT ![c].pc = "respond",
                                 ![c].result = Some([ok |-> FALSE])]
         ELSE /\ transactions' = InsertRow(transactions, row)
              /\ checkouts' = [checkouts EXCEPT ![c].pc = "respond",
                                 ![c].result = Some([ok |-> TRUE])]
  /\ UNCHANGED <<webhook_events, clock, nextUuid, events, webhooks, reads,
               service, connections, operations>>

\* The INSERT of checkout c rejects (connection lost, server error).
DbRejectInsert(c) ==
  /\ checkouts[c].pc = "insert"
  /\ checkouts' = [checkouts EXCEPT ![c].pc = "respond", ![c].result = Some([ok |-> FALSE])]
  /\ UNCHANGED <<transactions, webhook_events, clock, nextUuid, events, webhooks, reads,
               service, connections, operations>>

\* The response carrying the transaction's id as checkout_id.
CheckoutSettled_AnswersTransactionId(result, coinbaseCharge, transaction) ==
  IF result.ok
  THEN [ status |-> 200,
         body |-> [ success |-> TRUE,
                    data |-> [ payment_url |-> coinbaseCharge.hosted_url,
                               checkout_id |-> transaction.id,
                               expires_at |-> coinbaseCharge.expires_at ] ] ]
  ELSE CheckoutCaught

\* The rest of router.post("/checkout"): res.json(response) or the catch
\* block's res.status(500).
CheckoutSettled(result, coinbaseCharge, transaction) ==
  IF result.ok
  THEN [ status |-> 200,
         body |-> [ success |-> TRUE,
                    data |-> [ payment_url |-> coinbaseCharge.hosted_url,
                               checkout_id |-> transaction.checkout_id,
                               expires_at |-> coinbaseCharge.expires_at ] ] ]
  ELSE CheckoutCaught

CheckoutRespond(c) ==
  /\ checkouts[c].pc = "respond"
  /\ checkouts' = [checkouts EXCEPT ![c].pc = "done",
                     ![c].response = Some(CheckoutSettled(checkouts[c].result[1],
                                                          checkouts[c].coinbaseCharge[1],
                                                          checkouts[c].transaction[1]))]
  /\ UNCHANGED <<transactions, webhook_events, clock, nextUuid, events, webhooks, reads,
               service, connections, operations>>

(* ----------------------------- GET /health --------------------------- *)

\* SUM(CASE WHEN status = ? THEN 1 ELSE 0 END) over the rows of the table: NULL
\* when there is no row to sum.
SumOfStatus(table, status) ==
  IF DOMAIN table = {}
  THEN NULL
  ELSE Some(Cardinality({ id \in DOMAIN table : table[id].status = status }))

\* The aggregate query with the completed rows counted under pending too.
getTransactionStats_PendingCountsCompleted(table) ==
  [ total |-> Cardinality(DOMAIN table),
    pending |-> SumOfStatus(table, "completed"),
    completed |-> SumOfStatus(table, "completed"),
    failed |-> SumOfStatus(table, "failed") ]

\* The row of getTransactionStats' single SELECT COUNT(*), SUM(...), SUM(...),
\* SUM(...) FROM transactions: result.rows[0].
getTransactionStats(table) ==
  [ total |-> Cardinality(DOMAIN table),
    pending |-> SumOfStatus(table, "pending"),
    completed |-> SumOfStatus(table, "completed"),
    failed |-> SumOfStatus(table, "failed") ]

\* router.get("/health") answering 500 when getTransactionStats throws.
HealthSettled_FailsWithoutStore(result) ==
  IF result.ok
  THEN [ status |-> 200,
         body |-> [status |-> "healthy", transactions |-> result.stats, database |-> "connected"] ]
  ELSE [ status |-> 500, body |-> [status |-> "unhealthy", error |-> "Service error"] ]

\* router.get("/health") after getTransactionStats settles: res.json with the
\* stats, or the inner catch block's res.json with zeros.  Of basicHealth only
\* status is kept (timestamp, uptime, memory, environment, version are not).
HealthSettled(result) ==
  IF result.ok
  THEN [ status |-> 200,
         body |-> [status |-> "healthy", transactions |-> result.stats, database |-> "connected"] ]
  ELSE [ status |-> 200,
         body |-> [ status |-> "healthy",
                    transactions |-> [ total |-> 0, pending |-> Some(0),
                                       completed |-> Some(0), failed |-> Some(0) ],
                    database |-> "disconnected" ] ]

\* router.get("/health") up to its first yield: getTransactionStats hands its
\* query to the connection.
HealthReceive(r) ==
  /\ reads[r].pc = "idle"
  /\ \A q \in ReadSlots : q < r => reads[q].pc # "idle"
  /\ Received < MaxRequests
  /\ reads' = [reads EXCEPT ![r] =
       [kind |-> "health", pc |-> "stats", result |-> NULL, response |-> NULL]]
  /\ UNCHANGED <<transactions, webhook_events, clock, nextUuid, events, webhooks, checkouts,
               service, connections, operations>>

\* The database executes the aggregate query of health request r.
DbExecuteStats(r) ==
  /\ reads[r].pc = "stats"
  /\ reads' = [reads EXCEPT ![r].pc = "respond",
                 ![r].result = Some([ok |-> TRUE, stats |-> getTransactionStats(transactions)])]
  /\ UNCHANGED <<transactions, webhook_events, clock, nextUuid, events, webhooks, checkouts,
               service, connections, operations>>

\* The aggregate query of health request r rejects.
DbRejectStats(r) ==
  /\ reads[r].pc = "stats"
  /\ reads' = [reads EXCEPT ![r].pc = "respond", ![r].result = Some([ok |-> FALSE])]
  /\ UNCHANGED <<transactions, webhook_events, clock, nextUuid, events, webhooks, checkouts,
               service, connections, operations>>

HealthRespond(r) ==
  /\ reads[r].pc = "respond"
  /\ reads[r].kind = "health"
  /\ reads' = [reads EXCEPT ![r].pc = "done",
                 ![r].response = Some(HealthSettled(reads[r].result[1]))]
  /\ UNCHANGED <<transactions, webhook_events, clock, nextUuid, events, webhooks, checkouts,
               service, connections, operations>>

(* -------------------------- GET /transactions ------------------------ *)

\* The integers whose decimal text a query parameter can carry.
ParseRange == -1..101

\* parseInt(text) of a query parameter: the integer the text denotes, NaN
\* (NULL) for an absent parameter or a text that denotes none.
parseInt(param) ==
  IF IsString(param) /\ \E n \in ParseRange : ToString(n) = param.string
  THEN Some(CHOOSE n \in ParseRange : ToString(n) = param.string)
  ELSE NULL

\* JavaScript's value || fallback on a number: NaN and 0 are falsy.
OrElse(value, fallback) ==
  IF IsNull(value) \/ value[1] = 0 THEN fallback ELSE value[1]

\* JavaScript's if (text) on a query parameter: absent and "" are falsy.
Truthy(param) == IsString(param) /\ param.string # ""

\* if (page < 1 || limit < 1 || limit > 100)
PaginationError(page, limit) == page < 1 \/ limit < 1 \/ limit > 100

\* WHERE status = ? AND email = ?, each condition present when its option is
\* truthy.
MatchesFilter(row, options) ==
  /\ Truthy(options.status) => row.status = options.status.string
  /\ Truthy(options.email) => row.email = options.email.string

Matching(table, options) == { id \in DOMAIN table : MatchesFilter(table[id], options) }

\* ORDER BY created_at DESC: the orders in which the database may return the
\* rows ids; rows of equal created_at come in any order.
RECURSIVE Orders(_, _)
Orders(table, ids) ==
  IF ids = {}
  THEN { <<>> }
  ELSE LET first == { id \in ids : \A other \in ids : table[id].created_at >= table[other].created_at }
       IN  UNION { { <<id>> \o rest : rest \in Orders(table, ids \ {id}) } : id \in first }

\* LIMIT limit OFFSET offset
LimitOffset(order, limit, offset) ==
  SubSeq(order, offset + 1, IF offset + limit < Len(order) THEN offset + limit ELSE Len(order))

\* getTransactions: the row lists (result.rows) its SELECT may return.
getTransactions(table, options) ==
  { [ i \in 1..Len(page) |-> table[page[i]] ] :
      page \in { LimitOffset(order, options.limit, options.offset) :
                   order \in Orders(table, Matching(table, options)) } }

\* getTransactionCount: SELECT COUNT(*) with the same WHERE.
getTransactionCount(table, options) == Cardinality(Matching(table, options))

\* Math.ceil(totalCount / limit) with an integer division rounding down.
Ceil_RoundsDown(totalCount, limit) == totalCount \div limit

\* Math.ceil(totalCount / limit)
Ceil(totalCount, limit) == (totalCount + limit - 1) \div limit

\* The body of the route's res.json.
ListResponse(page, limit, rows, totalCount) ==
  LET totalPages == Ceil(totalCount, limit)
  IN  [ status |-> 200,
        body |-> [ success |-> TRUE,
                   data |-> [ transactions |-> rows,
                              pagination |-> [ page |-> page, limit |-> limit,
                                               total |-> totalCount,
                                               totalPages |-> totalPages,
                                               hasNext |-> page < totalPages,
                                               hasPrev |-> page > 1 ] ] ] ]

ListInvalid ==
  [ status |-> 400,
    body |-> [ success |-> FALSE,
               error |-> "Invalid pagination parameters. Page must be >= 1, limit must be between 1 and 100" ] ]

ListCaught ==
  [status |-> 500, body |-> [success |-> FALSE, error |-> "Internal server error"]]

\* router.get("/transactions") up to its first yield: the parameters are
\* parsed and checked, then getTransactions and getTransactionCount each hand
\* their query to the connection (Promise.all).
ListHandler(query) ==
  LET page == OrElse(parseInt(query.page), 1)
      limit == OrElse(parseInt(query.limit), 10)
      base == [ kind |-> "list", query |-> query, page |-> page, limit |-> limit,
                offset |-> (page - 1) * limit, status |-> query.status, email |-> query.email,
                rows |-> NULL, count |-> NULL, response |-> NULL ]
  IN  IF PaginationError(page, limit)
      THEN [base @@ [pc |-> "done"] EXCEPT !.response = Some(ListInvalid)]
      ELSE base @@ [pc |-> "queries"]

\* A GET /transactions request reaches slot r.
ListReceive(r, queries) ==
  /\ reads[r].pc = "idle"
  /\ \A q \in ReadSlots : q < r => reads[q].pc # "idle"
  /\ Received < MaxRequests
  /\ \E query \in queries : reads' = [reads EXCEPT ![r] = ListHandler(query)]
  /\ UNCHANGED <<transactions, webhook_events, clock, nextUuid, events, webhooks, checkouts,
               service, connections, operations>>

\* The database executes the SELECT of list request r.
DbExecuteSelect(r) ==
  /\ reads[r].pc = "queries"
  /\ IsNull(reads[r].rows)
  /\ \E rows \in getTransactions(transactions, reads[r]) :
       reads' = [reads EXCEPT ![r].rows = Some([ok |-> TRUE, rows |-> rows])]
  /\ UNCHANGED <<transactions, webhook_events, clock, nextUuid, events, webhooks, checkouts,
               service, connections, operations>>

\* The SELECT of list request r rejects.
DbRejectSelect(r) ==
  /\ reads[r].pc = "queries"
  /\ IsNull(reads[r].rows)
  /\ reads' = [reads EXCEPT ![r].rows = Some([ok |-> FALSE])]
  /\ UNCHANGED <<transactions, webhook_events, clock, nextUuid, events, webhooks, checkouts,
               service, connections, operations>>

\* The database executes the SELECT COUNT(*) of list request r.
DbExecuteCount(r) ==
  /\ reads[r].pc = "queries"
  /\ IsNull(reads[r].count)
  /\ reads' = [reads EXCEPT ![r].count =
       Some([ok |-> TRUE, count |-> getTransactionCount(transactions, reads[r])])]
  /\ UNCHANGED <<transactions, webhook_events, clock, nextUuid, events, webhooks, checkouts,
               service, connections, operations>>

\* The SELECT COUNT(*) of list request r rejects.
DbRejectCount(r) ==
  /\ reads[r].pc = "queries"
  /\ IsNull(reads[r].count)
  /\ reads' = [reads EXCEPT ![r].count = Some([ok |-> FALSE])]
  /\ UNCHANGED <<transactions, webhook_events, clock, nextUuid, events, webhooks, checkouts,
               service, connections, operations>>

\* Promise.all has settled: both queries resolved, or one of them rejected.
ListSettled(slot) ==
  \/ ~ IsNull(slot.rows) /\ ~ slot.rows[1].ok
  \/ ~ IsNull(slot.count) /\ ~ slot.count[1].ok
  \/ ~ IsNull(slot.rows) /\ ~ IsNull(slot.count)

\* The rest of router.get("/transactions"): res.json or the catch block.
ListRespond(r) ==
  /\ reads[r].pc = "queries"
  /\ ListSettled(reads[r])
  /\ reads' = [reads EXCEPT ![r].pc = "done",
       ![r].response =
         Some(IF (~ IsNull(reads[r].rows) /\ ~ reads[r].rows[1].ok)
                 \/ (~ IsNull(reads[r].count) /\ ~ reads[r].count[1].ok)
              THEN ListCaught
              ELSE ListResponse(reads[r].page, reads[r].limit,
                                reads[r].rows[1].rows, reads[r].count[1].count))]
  /\ UNCHANGED <<transactions, webhook_events, clock, nextUuid, events, webhooks, checkouts,
               service, connections, operations>>

(* --------------------------- specification --------------------------- *)

Next ==
  \/ \E w \in WebhookSlots : WebhookReceive(w)
  \/ \E w \in WebhookSlots : DbExecuteUpdate(w)
  \/ \E w \in WebhookSlots : DbRejectUpdate(w)
  \/ \E w \in WebhookSlots : WebhookRespond(w)
  \/ \E c \in CheckoutSlots : CheckoutReceive(c)
  \/ \E c \in CheckoutSlots : CheckoutCreateCharge(c)
  \/ \E c \in CheckoutSlots : CheckoutChargeFails(c)
  \/ \E c \in CheckoutSlots : DbExecuteInsert(c)
  \/ \E c \in CheckoutSlots : DbRejectInsert(c)
  \/ \E c \in CheckoutSlots : CheckoutRespond(c)

Spec == Init /\ [][Next]_vars

(* ------------- the transaction store under direct calls -------------- *)

\* createTransaction is a public method of TransactionService: the charge
\* data a caller can pass it, one of them naming the charge of the sample row.
ChargeInputs ==
  { [ id |-> chargeId, code |-> "CHG-INPUT",
      hosted_url |-> "https://superai.coinbase.com/pay/CHG-INPUT",
      expires_at |-> toISOString(15 * 60 * 1000) ] :
      chargeId \in {"test-charge-1", "charge-input"} }

RequestInputs == { [amount |-> 9999, email |-> "test@example.com"] }

\* A caller invokes createTransaction(request, coinbaseData): the method
\* builds the row from two fresh uuids and hands the INSERT to the connection.
ServiceCreateTransaction(c) ==
  /\ checkouts[c].pc = "idle"
  /\ \A d \in CheckoutSlots : d < c => checkouts[d].pc # "idle"
  /\ \E request \in RequestInputs, coinbaseData \in ChargeInputs, now \in Instants :
       /\ clock' = now
       /\ checkouts' = [checkouts EXCEPT ![c] =
            [ pc |-> "insert",
              body |-> [amount |-> Number(request.amount), email |-> String(request.email)],
              request |-> Some(request),
              coinbaseCharge |-> Some(coinbaseData),
              transaction |-> Some(createTransaction(request, coinbaseData, nextUuid + 1, now)),
              result |-> NULL, response |-> NULL ]]
  /\ nextUuid' = nextUuid + 2
  /\ UNCHANGED <<transactions, webhook_events, events, webhooks, reads,
               service, connections, operations>>

StoreNext ==
  \/ \E c \in CheckoutSlots : ServiceCreateTransaction(c)
  \/ \E c \in CheckoutSlots : DbExecuteInsert(c)
  \/ \E c \in CheckoutSlots : DbRejectInsert(c)

StoreSpec == Init /\ [][StoreNext]_vars


(* ----------------------- the service with its reads ------------------ *)

\* Query strings of the list requests sent while checkouts and webhooks run.
ServiceQueries ==
  { [page |-> page, limit |-> String("1"), status |-> Undefined, email |-> Undefined] :
      page \in {Undefined, String("2")} }

ReadNext ==
  \/ \E r \in ReadSlots : HealthReceive(r)
  \/ \E r \in ReadSlots : DbExecuteStats(r)
  \/ \E r \in ReadSlots : DbRejectStats(r)
  \/ \E r \in ReadSlots : HealthRespond(r)
  \/ \E r \in ReadSlots : ListReceive(r, ServiceQueries)
  \/ \E r \in ReadSlots : DbExecuteSelect(r)
  \/ \E r \in ReadSlots : DbRejectSelect(r)
  \/ \E r \in ReadSlots : DbExecuteCount(r)
  \/ \E r \in ReadSlots : DbRejectCount(r)
  \/ \E r \in ReadSlots : ListRespond(r)

ServiceNext == Next \/ ReadNext

ServiceSpec == Init /\ [][ServiceNext]_vars

(* ------------------- the list route over a fixed store --------------- *)

\* The row a checkout of this email answered at this instant has inserted,
\* as the i-th checkout of the service.
CheckoutRow(i, email, now) ==
  createTransaction([amount |-> 9999, email |-> email],
                    createCharge(3 * i - 2, now), 3 * i - 1, now)

InsertRows(table, rows) ==
  [ id \in DOMAIN table \cup { row.id : row \in rows } |->
      IF id \in DOMAIN table THEN table[id] ELSE CHOOSE row \in rows : row.id = id ]

\* Stores the service can have built: the sample row, up to three checkouts
\* (two of them in the same instant, one in the instant of the sample row),
\* the second of them confirmed or not; and the sample row with 24 checkouts
\* at 24 later instants.
ListTables ==
  LET seed == [id \in {SeedTransaction.id} |-> SeedTransaction]
      first == CheckoutRow(1, "test@example.com", 0)
      second == CheckoutRow(2, "other@example.com", 1)
      third == CheckoutRow(3, "other@example.com", 1)
      plain == { InsertRows(seed, rows) : rows \in SUBSET {first, second, third} }
      confirmed ==
        { ApplyUpdate(table, updateTransactionStatus(second.coinbase_charge_id[1],
                                                     "completed", Some(2), 2)) :
            table \in { t \in plain : second.id \in DOMAIN t } }
      many == InsertRows(seed, { CheckoutRow(i, "test@example.com", i) : i \in 1..24 })
  IN  plain \cup confirmed \cup {many}

\* Query strings of GET /transactions.
ListQueries ==
  [ page : {Undefined, String("-1"), String("0"), String("1"), String("2")},
    limit : {Undefined, String("0"), String("1"), String("10"), String("100"), String("101")},
    status : {Undefined, String("pending")},
    email : {Undefined, String("other@example.com")} ]

\* The query string a client paging through the list sends after this
\* request: the same, for the following page.
FollowingPage(slot) == { [slot.query EXCEPT !.page = String(ToString(slot.page + 1))] }

ListInit ==
  /\ transactions \in ListTables
  /\ webhook_events = {}
  /\ clock = 0
  /\ nextUuid = 0
  /\ events = <<>>
  /\ webhooks = [w \in WebhookSlots |-> IdleWebhook]
  /\ checkouts = [c \in CheckoutSlots |-> IdleCheckout]
  /\ reads = [r \in ReadSlots |-> IdleRead]
  /\ ServiceReady

ListNext ==
  \/ ListReceive(1, ListQueries)
  \/ \E r \in ReadSlots \ {1} : ListReceive(r, FollowingPage(reads[r - 1]))
  \/ \E r \in ReadSlots : DbExecuteSelect(r)
  \/ \E r \in ReadSlots : DbRejectSelect(r)
  \/ \E r \in ReadSlots : DbExecuteCount(r)
  \/ \E r \in ReadSlots : DbRejectCount(r)
  \/ \E r \in ReadSlots : ListRespond(r)

ListSpec == ListInit /\ [][ListNext]_vars

(* ------------------- point lookups over a fixed store --------------- *)

GetCaught ==
  [status |-> 500, body |-> [success |-> FALSE, error |-> "Internal server error"]]

\* router.get("/transactions/:id") answering 500 when getTransactionById
\* returned null.
GetSettled_AbsentIsAnError(result) ==
  IF result.ok /\ ~ IsNull(result.value)
  THEN [status |-> 200, body |-> [success |-> TRUE, data |-> result.value[1]]]
  ELSE GetCaught

\* The rest of router.get("/transactions/:id") after getTransactionById
\* settles: 404 for null, res.json for a row, the catch block's 500.
GetSettled(result) ==
  IF ~ result.ok
  THEN GetCaught
  ELSE IF IsNull(result.value)
  THEN [status |-> 404, body |-> [success |-> FALSE, error |-> "Transaction not found"]]
  ELSE [status |-> 200, body |-> [success |-> TRUE, data |-> result.value[1]]]

\* Ids asked for: the sample row's, the second checkout's, one never issued.
LookupIds == {SeedTransaction.id, uuidv4(5), "no-such-id"}

\* Charge ids asked for: the sample row's, the second checkout's, one of
\* another merchant.
LookupCharges == {"test-charge-1", uuidv4(4), ForeignCharge}

\* router.get("/transactions/:id") up to its first yield: getTransactionById
\* hands its SELECT to the connection.
GetReceive(r) ==
  /\ reads[r].pc = "idle"
  /\ \A q \in ReadSlots : q < r => reads[q].pc # "idle"
  /\ Received < MaxRequests
  /\ \E id \in LookupIds :
       reads' = [reads EXCEPT ![r] =
         [kind |-> "get", pc |-> "select", id |-> id, result |-> NULL, response |-> NULL]]
  /\ UNCHANGED <<transactions, webhook_events, clock, nextUuid, events, webhooks, checkouts,
               service, connections, operations>>

\* The database executes the SELECT of lookup r; getTransactionById returns
\* its first row or null.
DbExecuteGet(r) ==
  /\ reads[r].pc = "select"
  /\ reads' = [reads EXCEPT ![r].pc = "respond",
       ![r].result = Some([ok |-> TRUE, value |-> getTransactionById(transactions, reads[r].id)])]
  /\ UNCHANGED <<transactions, webhook_events, clock, nextUuid, events, webhooks, checkouts,
               service, connections, operations>>

\* The SELECT of lookup r rejects.
DbRejectGet(r) ==
  /\ reads[r].pc = "select"
  /\ reads' = [reads EXCEPT ![r].pc = "respond", ![r].result = Some([ok |-> FALSE])]
  /\ UNCHANGED <<transactions, webhook_events, clock, nextUuid, events, webhooks, checkouts,
               service, connections, operations>>

GetRespond(r) ==
  /\ reads[r].pc = "respond"
  /\ reads[r].kind = "get"
  /\ reads' = [reads EXCEPT ![r].pc = "done",
                 ![r].response = Some(GetSettled(reads[r].result[1]))]
  /\ UNCHANGED <<transactions, webhook_events, clock, nextUuid, events, webhooks, checkouts,
               service, connections, operations>>

\* A caller invokes findTransactionByChargeId, which hands its SELECT to the
\* connection.
ServiceFind(r) ==
  /\ reads[r].pc = "idle"
  /\ \A q \in ReadSlots : q < r => reads[q].pc # "idle"
  /\ Received < MaxRequests
  /\ \E chargeId \in LookupCharges :
       reads' = [reads EXCEPT ![r] =
         [kind |-> "find", pc |-> "find", chargeId |-> chargeId, result |-> NULL]]
  /\ UNCHANGED <<transactions, webhook_events, clock, nextUuid, events, webhooks, checkouts,
               service, connections, operations>>

\* The database executes the SELECT of call r; the call returns its first
\* row or null.
DbExecuteFind(r) ==
  /\ reads[r].pc = "find"
  /\ reads' = [reads EXCEPT ![r].pc = "done",
       ![r].result = Some([ok |-> TRUE,
                           value |-> findTransactionByChargeId(transactions, reads[r].chargeId)])]
  /\ UNCHANGED <<transactions, webhook_events, clock, nextUuid, events, webhooks, checkouts,
               service, connections, operations>>

\* The SELECT of call r rejects, and the call with it.
DbRejectFind(r) ==
  /\ reads[r].pc = "find"
  /\ reads' = [reads EXCEPT ![r].pc = "done", ![r].result = Some([ok |-> FALSE])]
  /\ UNCHANGED <<transactions, webhook_events, clock, nextUuid, events, webhooks, checkouts,
               service, connections, operations>>

LookupNext ==
  \/ \E r \in ReadSlots : GetReceive(r)
  \/ \E r \in ReadSlots : DbExecuteGet(r)
  \/ \E r \in ReadSlots : DbRejectGet(r)
  \/ \E r \in ReadSlots : GetRespond(r)
  \/ \E r \in ReadSlots : ServiceFind(r)
  \/ \E r \in ReadSlots : DbExecuteFind(r)
  \/ \E r \in ReadSlots : DbRejectFind(r)

LookupSpec == ListInit /\ [][LookupNext]_vars

(* ------------------- the service while it connects ------------------ *)

ConnectInit ==
  /\ transactions = [id \in {SeedTransaction.id} |-> SeedTransaction]
  /\ webhook_events = {}
  /\ clock = 0
  /\ nextUuid = 0
  /\ events = <<>>
  /\ webhooks = [w \in WebhookSlots |-> IdleWebhook]
  /\ checkouts = [c \in CheckoutSlots |-> IdleCheckout]
  /\ reads = [r \in ReadSlots |-> IdleRead]
  /\ ServiceConstructed

ConnectNext ==
  \/ \E k \in DOMAIN connections : AttemptSucceeds(k)
  \/ \E k \in DOMAIN connections : AttemptFails(k)
  \/ \E k \in DOMAIN connections : DelayElapses(k)
  \/ \E o \in OperationSlots : OperationCalls(o)
  \/ \E o \in OperationSlots : EnsureTimesOut(o)

ConnectSpec == ConnectInit /\ [][ConnectNext]_vars

(* --------------------- createConnection called directly -------------- *)

\* Arguments of createConnection: the defaults among them.
RetryInputs == [maxRetries : 0..DefaultMaxRetries, initialDelay : {DefaultInitialDelay, 250}]

RetryInit ==
  /\ transactions = [id \in {SeedTransaction.id} |-> SeedTransaction]
  /\ webhook_events = {}
  /\ clock = 0
  /\ nextUuid = 0
  /\ events = <<>>
  /\ webhooks = [w \in WebhookSlots |-> IdleWebhook]
  /\ checkouts = [c \in CheckoutSlots |-> IdleCheckout]
  /\ reads = [r \in ReadSlots |-> IdleRead]
  /\ service = [db |-> NULL, isInitialized |-> FALSE]
  /\ operations = [o \in OperationSlots |-> IdleOperation]
  /\ \E input \in RetryInputs :
       connections = <<createConnection(input.maxRetries, input.initialDelay, Direct)>>

RetryNext ==
  \/ \E k \in DOMAIN connections : AttemptSucceeds(k)
  \/ \E k \in DOMAIN connections : AttemptFails(k)
  \/ \E k \in DOMAIN connections : DelayElapses(k)

\* An attempt settles within connectTimeout and a delay ends with its timer:
\* a step of the call that can be taken is taken.
RetrySpec == RetryInit /\ [][RetryNext]_vars /\ WF_vars(RetryNext)

(* ------------------------- vocabulary of the claims ------------------ *)

Started(w) == webhooks[w].pc # "idle"

\* Delivery w passed authentication and payload validation.
Accepted(w) ==
  /\ Started(w)
  /\ validateWebhookSignature(webhooks[w].signature)
  /\ ~ webhookSchemaError(webhooks[w].body)

TypeOf(w) == webhooks[w].body.type[1]

ChargeOf(w) == webhooks[w].body.chargeId[1]

SameEvent(v, w) ==
  /\ Accepted(v) /\ Accepted(w)
  /\ webhooks[v].body.id = webhooks[w].body.id

\* The database has executed the UPDATE of delivery w.
Executed(w) ==
  /\ Started(w)
  /\ webhooks[w].pc \in {"respond", "done"}
  /\ ~ IsNull(webhooks[w].result)
  /\ webhooks[w].result[1].ok

\* ... and it matched a transaction.
Applied(w) == Executed(w) /\ webhooks[w].result[1].affectedRows >= 1

\* Delivery w has been answered with this status.
Answered(w, status) ==
  /\ Started(w)
  /\ webhooks[w].pc = "done"
  /\ webhooks[w].response[1].status = status

\* This step is the database executing the UPDATE of delivery w.
ExecutesNow(w) ==
  /\ Started(w)
  /\ webhooks[w].pc = "query"
  /\ webhooks'[w].pc = "respond"
  /\ webhooks'[w].result[1].ok

\* This step is a step of delivery w.
ActsNow(w) == webhooks'[w] # webhooks[w]

RowsOfCharge(chargeId) ==
  { id \in DOMAIN transactions : transactions[id].coinbase_charge_id = Some(chargeId) }

(* ------------------------------ claims ------------------------------- *)

\* C1: once a transaction is completed (with confirmed_at set), no later
\* step changes that: it stays completed and confirmed_at stays non-null,
\* in particular when a charge:failed follows a charge:confirmed.
C1_CompletedIsSticky ==
  [][ \A id \in DOMAIN transactions :
        (transactions[id].status = "completed" /\ ~ IsNull(transactions[id].confirmed_at))
          => /\ transactions'[id].status = "completed"
             /\ ~ IsNull(transactions'[id].confirmed_at) ]_vars

\* C2: once a transaction is failed it stays failed with confirmed_at null,
\* and every change of a status starts from pending and ends in completed or
\* failed.
C2_FailedIsSticky ==
  [][ \A id \in DOMAIN transactions :
        /\ transactions[id].status = "failed"
             => /\ transactions'[id].status = "failed"
                /\ IsNull(transactions'[id].confirmed_at)
        /\ transactions'[id].status # transactions[id].status
             => /\ transactions[id].status = "pending"
                /\ transactions'[id].status \in {"completed", "failed"} ]_vars

\* C3: when the UPDATE of a delivery executes after the UPDATE of another
\* delivery of the same webhook id has been applied to the transaction, no
\* transaction row changes (status, confirmed_at and updated_at are as
\* before).
C3_SecondDeliveryChangesNothing ==
  [][ \A w \in WebhookSlots :
        (ExecutesNow(w) /\ \E v \in WebhookSlots \ {w} : SameEvent(v, w) /\ Applied(v))
          => transactions' = transactions ]_vars

\* C4: two deliveries of the same webhook id that are in flight together
\* never have both had their UPDATE applied to the transaction.
C4_ConcurrentDuplicatesApplyOnce ==
  \A v, w \in WebhookSlots :
    (v # w /\ SameEvent(v, w) /\ webhooks[v].pc = "respond" /\ webhooks[w].pc = "respond")
      => ~ (Applied(v) /\ Applied(w))

\* C5: every delivery answered 200 has exactly one row of its webhook id in
\* webhook_events.
C5_OneAuditRowPerAcceptedEvent ==
  \A w \in WebhookSlots :
    Answered(w, 200)
      => Cardinality({ r \in webhook_events : Some(r.webhook_id) = webhooks[w].body.id }) = 1

\* C6: a delivery of an event that an earlier delivery already got 200 for,
\* with a valid signature and payload and no failure of the store while it
\* is handled, is answered 200.
C6_RepeatAnswered200 ==
  \A w \in WebhookSlots :
    ( /\ Started(w) /\ webhooks[w].pc = "done"
      /\ \E v \in WebhookSlots : v < w /\ SameEvent(v, w) /\ Answered(v, 200)
      /\ (IsNull(webhooks[w].result) \/ webhooks[w].result[1].ok) )
      => webhooks[w].response[1].status = 200

C6_Witness ==
  \E v, w \in WebhookSlots :
    /\ v < w /\ SameEvent(v, w)
    /\ TypeOf(w) = "charge:confirmed"
    /\ Applied(v) /\ Applied(w)
    /\ Answered(v, 200) /\ Answered(w, 200)

\* C7: confirmed_at is non-null exactly for the completed transactions.
C7_ConfirmedAtIffCompleted ==
  \A id \in DOMAIN transactions :
    ~ IsNull(transactions[id].confirmed_at) <=> transactions[id].status = "completed"

\* C8: when the UPDATE of a charge:confirmed delivery is applied, GET
\* /api/transactions/{id} from then on answers 200 with status completed and
\* a non-null confirmed_at, up to the next charge:failed applied to that
\* charge.
ShownCompleted(table, id) ==
  LET res == GetTransactionRoute(table, id)
  IN  /\ res.status = 200
      /\ res.body.data.status = "completed"
      /\ ~ IsNull(res.body.data.confirmed_at)

C8_RoundTrip ==
  [][ /\ \A w \in WebhookSlots :
           (ExecutesNow(w) /\ TypeOf(w) = "charge:confirmed")
             => \A id \in RowsOfCharge(ChargeOf(w)) : ShownCompleted(transactions', id)
      /\ \A id \in DOMAIN transactions :
           ( /\ ShownCompleted(transactions, id)
             /\ ~ \E w \in WebhookSlots :
                    /\ ExecutesNow(w) /\ TypeOf(w) = "charge:failed"
                    /\ id \in RowsOfCharge(ChargeOf(w)) )
             => ShownCompleted(transactions', id) ]_vars

C8_Witness ==
  \E w \in WebhookSlots, c \in CheckoutSlots :
    /\ checkouts[c].pc = "done" /\ checkouts[c].response[1].status = 200
    /\ Answered(w, 200) /\ Applied(w) /\ TypeOf(w) = "charge:confirmed"
    /\ ChargeOf(w) = checkouts[c].coinbaseCharge[1].id
    /\ ShownCompleted(transactions, checkouts[c].transaction[1].id)

\* C9: when the UPDATE of an accepted charge:failed delivery executes, every
\* pending transaction of its charge id becomes failed with confirmed_at null.
C9_FailedMovesPendingToFailed ==
  [][ \A w \in WebhookSlots :
        (ExecutesNow(w) /\ TypeOf(w) = "charge:failed")
          => \A id \in RowsOfCharge(ChargeOf(w)) :
               transactions[id].status = "pending"
                 => /\ transactions'[id].status = "failed"
                    /\ IsNull(transactions'[id].confirmed_at) ]_vars

C9_Witness ==
  \E w \in WebhookSlots :
    /\ Answered(w, 200) /\ Applied(w) /\ TypeOf(w) = "charge:failed"
    /\ \A v \in WebhookSlots \ {w} : Accepted(v) => ChargeOf(v) # ChargeOf(w)
    /\ \E id \in RowsOfCharge(ChargeOf(w)) :
         transactions[id].status = "failed" /\ IsNull(transactions[id].confirmed_at)

\* C10: no step of an accepted charge:created delivery changes a transaction
\* row.
C10_CreatedChangesNoTransaction ==
  [][ \A w \in WebhookSlots :
        (ActsNow(w) /\ Accepted(w)' /\ TypeOf(w)' = "charge:created")
          => transactions' = transactions ]_vars

C10_Witness ==
  \E v, w \in WebhookSlots :
    /\ v < w /\ Accepted(v) /\ Accepted(w)
    /\ Answered(v, 200) /\ Applied(v) /\ ChargeOf(v) = ChargeOf(w)
    /\ Answered(w, 200) /\ TypeOf(w) = "charge:created"
    /\ \E id \in RowsOfCharge(ChargeOf(w)) : transactions[id].status \in {"completed", "failed"}

(* -------------------- vocabulary of the later claims ----------------- *)

\* The signature header of delivery w is missing or is not a sha256= one.
BadSignature(w) ==
  /\ Started(w)
  /\ (IsNull(webhooks[w].signature) \/ webhooks[w].signature[1] # "sha256=")

GoodSignature(w) ==
  /\ Started(w)
  /\ ~ IsNull(webhooks[w].signature)
  /\ webhooks[w].signature[1] = "sha256="

\* The payload of delivery w lacks id, type, created_at, data.id or data.code.
LacksRequiredField(w) ==
  \E f \in {"id", "type", "created_at", "chargeId", "code"} : IsNull(webhooks[w].body[f])

\* The payload of delivery w is complete and names a type the schema does
\* not list.
UnknownType(w) ==
  /\ \A f \in RequiredFields : ~ IsNull(webhooks[w].body[f])
  /\ webhooks[w].body.created_at = Some(IsoDate)
  /\ webhooks[w].body.type[1] \notin {"charge:created", "charge:confirmed", "charge:failed"}

WebhookStatus(w) == webhooks[w].response[1].status

\* This step is the store executing the INSERT of checkout c with success.
InsertsNow(c) ==
  /\ checkouts[c].pc = "insert"
  /\ checkouts'[c].pc = "respond"
  /\ checkouts'[c].result[1].ok

\* This step is the arrival of checkout request c.
ArrivesNow(c) == checkouts[c].pc = "idle" /\ checkouts'[c].pc # "idle"

InvalidAmount(amount) == ~ (IsNumber(amount) /\ amount.number > 0)

InvalidEmail(email) == ~ IsString(email) \/ email.string = "not-an-email"

\* createCharge of checkout c has rejected.
GatewayFailed(c) ==
  /\ checkouts[c].pc \notin {"idle", "createCharge"}
  /\ ~ IsNull(checkouts[c].request)
  /\ IsNull(checkouts[c].coinbaseCharge)

(* --------------------------- later claims ---------------------------- *)

\* C11: an accepted delivery whose charge id matches no transaction changes
\* no transaction when its UPDATE executes, and is answered 200 with success
\* (a delivery that issues no query, and one whose UPDATE the store executed
\* on zero rows).
C11_UnknownChargeAnswered200 ==
  [][ \A w \in WebhookSlots :
        /\ (ExecutesNow(w) /\ RowsOfCharge(ChargeOf(w)) = {})
             => /\ transactions' = transactions
                /\ webhooks'[w].result[1].affectedRows = 0
        /\ ( /\ ActsNow(w) /\ Accepted(w)' /\ webhooks'[w].pc = "done"
             /\ IF IsNull(webhooks'[w].result)
                THEN RowsOfCharge(ChargeOf(w)') = {}
                ELSE webhooks'[w].result[1].ok /\ webhooks'[w].result[1].affectedRows = 0 )
             => webhooks'[w].response[1] = [status |-> 200, body |-> [success |-> TRUE]] ]_vars

C11_Witness ==
  \E w \in WebhookSlots, c \in CheckoutSlots :
    /\ Accepted(w) /\ TypeOf(w) = "charge:confirmed"
    /\ Executed(w) /\ webhooks[w].result[1].affectedRows = 0
    /\ Answered(w, 200)
    /\ checkouts[c].pc = "insert"
    /\ ChargeOf(w) = checkouts[c].coinbaseCharge[1].id
    /\ transactions = [id \in {SeedTransaction.id} |-> SeedTransaction]

\* C12: a delivery with a valid signature and a complete payload whose type
\* is none of charge:created, charge:confirmed, charge:failed is answered 200.
C12_UnknownTypeAnswered200 ==
  \A w \in WebhookSlots :
    (GoodSignature(w) /\ webhooks[w].pc = "done" /\ UnknownType(w))
      => WebhookStatus(w) = 200

\* C13: a delivery whose signature header is missing or invalid is answered
\* 401 in the step that receives it, and that step changes neither
\* transactions nor webhook_events, whatever the body is.
C13_BadSignatureRejected ==
  [][ \A w \in WebhookSlots :
        (ActsNow(w) /\ BadSignature(w)')
          => /\ webhooks'[w].pc = "done"
             /\ webhooks'[w].response[1] = [status |-> 401, body |-> [error |-> "Invalid signature"]]
             /\ transactions' = transactions
             /\ webhook_events' = webhook_events ]_vars

C13_Witness ==
  \E v, w \in WebhookSlots :
    /\ v # w /\ Applied(v)
    /\ BadSignature(w) /\ webhooks[w].signature = <<"md5=", "abc">>
    /\ webhooks[w].body = webhooks[v].body
    /\ Answered(w, 401)

\* C14: a delivery with a valid signature whose payload lacks id, type,
\* created_at, data.id or data.code is answered 400 in the step that receives
\* it, and that step changes neither transactions nor webhook_events.
C14_InvalidPayloadRejected ==
  [][ \A w \in WebhookSlots :
        (ActsNow(w) /\ GoodSignature(w)' /\ LacksRequiredField(w)')
          => /\ webhooks'[w].pc = "done"
             /\ webhooks'[w].response[1] = [status |-> 400, body |-> [error |-> "Invalid payload"]]
             /\ transactions' = transactions
             /\ webhook_events' = webhook_events ]_vars

C14_Witness ==
  \E w \in WebhookSlots :
    /\ GoodSignature(w)
    /\ IsNull(webhooks[w].body.id) /\ webhooks[w].body.type = Some("charge:confirmed")
    /\ Answered(w, 400)

\* C15: the INSERT of a checkout, when it succeeds, adds exactly one
\* transaction and changes no other: the new row is pending with confirmed_at
\* null, its checkout_id is that of no other transaction and its charge id is
\* the one createCharge returned to this request; a checkout is answered 200
\* only after its INSERT succeeded.
C15_CheckoutAddsOnePendingRow ==
  [][ \A c \in CheckoutSlots :
        /\ InsertsNow(c)
             => LET new == checkouts[c].transaction[1].id
                IN  /\ new \notin DOMAIN transactions
                    /\ DOMAIN transactions' = DOMAIN transactions \cup {new}
                    /\ \A id \in DOMAIN transactions : transactions'[id] = transactions[id]
                    /\ transactions'[new].status = "pending"
                    /\ IsNull(transactions'[new].confirmed_at)
                    /\ \A id \in DOMAIN transactions :
                         transactions[id].checkout_id # transactions'[new].checkout_id
                    /\ transactions'[new].coinbase_charge_id
                         = Some(checkouts[c].coinbaseCharge[1].id)
        /\ (checkouts'[c].pc = "done" /\ checkouts'[c].response[1].status = 200)
             => /\ ~ IsNull(checkouts'[c].result) /\ checkouts'[c].result[1].ok
                /\ checkouts'[c].transaction[1].id \in DOMAIN transactions' ]_vars

C15_Witness ==
  \E c, d \in CheckoutSlots :
    /\ c # d
    /\ checkouts[c].pc = "done" /\ checkouts[c].response[1].status = 200
    /\ checkouts[d].pc = "done" /\ checkouts[d].response[1].status = 200
    /\ Cardinality(DOMAIN transactions) = 3
    /\ transactions[checkouts[c].transaction[1].id].status = "pending"

\* C16: a checkout request whose amount is not a positive number or whose
\* email is missing or malformed is answered 400 in the step that receives
\* it; createCharge is not called (no charge, no uuid drawn) and the number
\* of transactions is unchanged.
C16_InvalidCheckoutRejected ==
  [][ \A c \in CheckoutSlots :
        ( /\ ArrivesNow(c)
          /\ (InvalidAmount(checkouts'[c].body.amount) \/ InvalidEmail(checkouts'[c].body.email)) )
          => /\ checkouts'[c].pc = "done"
             /\ checkouts'[c].response[1].status = 400
             /\ ~ checkouts'[c].response[1].body.success
             /\ IsNull(checkouts'[c].coinbaseCharge)
             /\ nextUuid' = nextUuid
             /\ Cardinality(DOMAIN transactions') = Cardinality(DOMAIN transactions) ]_vars

C16_Witness ==
  \E c, d \in CheckoutSlots :
    /\ c # d
    /\ checkouts[c].pc = "done" /\ checkouts[c].response[1].status = 400
    /\ checkouts[c].body = [amount |-> Number(9999), email |-> String("not-an-email")]
    /\ checkouts[d].pc = "done" /\ checkouts[d].response[1].status = 400
    /\ checkouts[d].body = [amount |-> String("abc"), email |-> String("test@example.com")]

\* C17: a checkout whose createCharge rejected is answered 500 in that step,
\* which changes no transaction; it has built no row and handed no INSERT to
\* the store, and every checkout whose INSERT is with the store holds the
\* charge createCharge returned.
C17_GatewayFailurePersistsNothing ==
  [][ \A c \in CheckoutSlots :
        /\ (checkouts'[c] # checkouts[c] /\ GatewayFailed(c)')
             => /\ checkouts'[c].pc = "done"
                /\ checkouts'[c].response[1].status = 500
                /\ ~ checkouts'[c].response[1].body.success
                /\ IsNull(checkouts'[c].transaction)
                /\ IsNull(checkouts'[c].result)
                /\ transactions' = transactions
        /\ checkouts'[c].pc = "insert" => ~ IsNull(checkouts'[c].coinbaseCharge) ]_vars

C17_Witness ==
  \E c, d \in CheckoutSlots :
    /\ c # d
    /\ GatewayFailed(c) /\ checkouts[c].pc = "done" /\ checkouts[c].response[1].status = 500
    /\ checkouts[d].pc = "done" /\ checkouts[d].response[1].status = 200
    /\ Cardinality(DOMAIN transactions) = 2

\* C18: no two transactions share a checkout_id, and no two share a charge
\* id.
C18_IdsUnique ==
  \A a, b \in DOMAIN transactions :
    a # b => /\ transactions[a].checkout_id # transactions[b].checkout_id
             /\ transactions[a].coinbase_charge_id # transactions[b].coinbase_charge_id

C18_Witness ==
  \E c, d \in CheckoutSlots :
    /\ c # d
    /\ checkouts[c].pc = "respond" /\ checkouts[c].result[1].ok
    /\ checkouts[d].pc = "respond" /\ checkouts[d].result[1].ok
    /\ Cardinality(DOMAIN transactions) = 3

\* C20: a status update whose charge id matched no transaction does not
\* resolve: its caller sees an error.
C20_UnknownChargeIsNotFound ==
  \A w \in WebhookSlots :
    ( /\ Started(w) /\ ~ IsNull(webhooks[w].result)
      /\ webhooks[w].result[1].affectedRows = 0 )
      => ~ webhooks[w].result[1].ok

\* C19: when the store executes the INSERT of a row whose checkout_id or
\* whose charge id is already that of a stored transaction, the INSERT fails
\* and no transaction changes.
C19_DuplicateInsertConflicts ==
  [][ \A c \in CheckoutSlots :
        ( /\ checkouts[c].pc = "insert" /\ checkouts'[c].pc = "respond"
          /\ \E id \in DOMAIN transactions :
               \/ transactions[id].checkout_id = checkouts[c].transaction[1].checkout_id
               \/ transactions[id].coinbase_charge_id
                    = checkouts[c].transaction[1].coinbase_charge_id )
          => /\ ~ checkouts'[c].result[1].ok
             /\ transactions' = transactions ]_vars

(* ---------------------- vocabulary of C21 to C30 --------------------- *)

\* The status processWebhook writes for the type of delivery w.
StatusFor(w) == IF TypeOf(w) = "charge:confirmed" THEN "completed" ELSE "failed"

\* The UPDATE of delivery w has rejected.
Rejected(w) ==
  /\ Started(w)
  /\ webhooks[w].pc \in {"respond", "done"}
  /\ ~ IsNull(webhooks[w].result)
  /\ ~ webhooks[w].result[1].ok

\* This step is the UPDATE of delivery w rejecting.
RejectsNow(w) ==
  /\ Started(w)
  /\ webhooks[w].pc = "query"
  /\ webhooks'[w].pc = "respond"
  /\ ~ webhooks'[w].result[1].ok

\* The columns a webhook is not to touch.
Kept(row) ==
  [ f \in {"id", "checkout_id", "email", "amount", "currency", "coinbase_charge_id",
           "coinbase_charge_code", "payment_url", "expires_at", "created_at"} |-> row[f] ]

\* The responses sent so far, of every route.
Responses ==
  { webhooks[w].response[1] :
      w \in { v \in WebhookSlots : Started(v) /\ ~ IsNull(webhooks[v].response) } }
    \cup { checkouts[c].response[1] :
             c \in { d \in CheckoutSlots : checkouts[d].pc = "done" } }
    \cup { reads[r].response[1] :
             r \in { q \in ReadSlots : reads[q].pc = "done" } }

\* C21: no step removes a transaction id from the store, and a step that
\* adds one is the store executing the INSERT of a checkout, adding the id of
\* that checkout's transaction and no other.
C21_OnlyCheckoutAddsRows ==
  [][ /\ DOMAIN transactions \subseteq DOMAIN transactions'
      /\ DOMAIN transactions' # DOMAIN transactions
           => \E c \in CheckoutSlots :
                /\ InsertsNow(c)
                /\ DOMAIN transactions' =
                     DOMAIN transactions \cup {checkouts[c].transaction[1].id} ]_vars

C21_Witness ==
  /\ \E c \in CheckoutSlots :
       /\ checkouts[c].pc = "done" /\ checkouts[c].response[1].status = 200
       /\ checkouts[c].transaction[1].id \in DOMAIN transactions
  /\ \E w \in WebhookSlots : Answered(w, 200) /\ Applied(w)
  /\ \E r \in ReadSlots : reads[r].pc = "done" /\ reads[r].response[1].status = 200
  /\ SeedTransaction.id \in DOMAIN transactions

\* C22: a step of a webhook delivery adds and removes no transaction, leaves
\* every transaction whose charge id is not the charge id of its payload as
\* it is, and leaves id, checkout_id, email, amount, currency, charge id,
\* charge code, payment_url, expires_at and created_at of the others as they
\* are.
C22_WebhookTouchesOnlyStatusColumns ==
  [][ \A w \in WebhookSlots :
        ActsNow(w)
          => /\ DOMAIN transactions' = DOMAIN transactions
             /\ \A id \in DOMAIN transactions :
                  IF /\ ~ IsNull(webhooks'[w].body.chargeId)
                     /\ transactions[id].coinbase_charge_id = webhooks'[w].body.chargeId
                  THEN Kept(transactions'[id]) = Kept(transactions[id])
                  ELSE transactions'[id] = transactions[id] ]_vars

C22_Witness ==
  \E w \in WebhookSlots, c \in CheckoutSlots :
    /\ Answered(w, 200) /\ Applied(w) /\ TypeOf(w) = "charge:confirmed"
    /\ checkouts[c].pc = "done" /\ checkouts[c].response[1].status = 200
    /\ ChargeOf(w) = checkouts[c].coinbaseCharge[1].id
    /\ LET row == transactions[checkouts[c].transaction[1].id]
       IN  /\ row.status = "completed"
           /\ row.updated_at > row.created_at
           /\ Kept(row) = Kept(checkouts[c].transaction[1])
    /\ transactions[SeedTransaction.id] = SeedTransaction

\* C23: the step in which the UPDATE of an accepted delivery rejects changes
\* no transaction, and the delivery is then answered 500; when the UPDATE of
\* a later delivery of the same event executes, every transaction of its
\* charge id gets the status of the event's type, with confirmed_at set
\* exactly for completed, as after one delivery that met no failure, and the
\* delivery is then answered 200.
C23_FailedDeliveryIsRetryable ==
  [][ \A w \in WebhookSlots :
        /\ RejectsNow(w) => transactions' = transactions
        /\ (Rejected(w)' /\ webhooks'[w].pc = "done")
             => /\ webhooks'[w].response[1].status = 500
                /\ ActsNow(w) => transactions' = transactions
        /\ (ExecutesNow(w) /\ \E v \in WebhookSlots : v < w /\ SameEvent(v, w) /\ Rejected(v))
             => /\ \A id \in RowsOfCharge(ChargeOf(w)) :
                     /\ transactions'[id].status = StatusFor(w)
                     /\ IsNull(transactions'[id].confirmed_at) <=> StatusFor(w) = "failed"
                /\ \A id \in DOMAIN transactions \ RowsOfCharge(ChargeOf(w)) :
                     transactions'[id] = transactions[id]
        /\ (Executed(w)' /\ webhooks'[w].pc = "done")
             => webhooks'[w].response[1].status = 200 ]_vars

C23_Witness ==
  \E v, w \in WebhookSlots, c \in CheckoutSlots :
    /\ v < w /\ SameEvent(v, w) /\ TypeOf(w) = "charge:confirmed"
    /\ Rejected(v) /\ Answered(v, 500)
    /\ Applied(w) /\ Answered(w, 200)
    /\ checkouts[c].pc = "done" /\ checkouts[c].response[1].status = 200
    /\ ChargeOf(w) = checkouts[c].coinbaseCharge[1].id
    /\ LET row == transactions[checkouts[c].transaction[1].id]
       IN  row.status = "completed" /\ ~ IsNull(row.confirmed_at)

\* C24: a delivery of a charge:confirmed (charge:failed) event answered 200
\* has had its UPDATE executed, and when it was applied to a pending
\* transaction the store shows that transaction as completed (failed).  With
\* at most one other delivery applied to the charge, a transaction inserted
\* by a checkout and showing another status than the one of delivery w was
\* pending when the UPDATE of w was applied to it.
C24_AnsweredAfterWrite ==
  \A w \in WebhookSlots :
    ( /\ Accepted(w) /\ Answered(w, 200)
      /\ TypeOf(w) \in {"charge:confirmed", "charge:failed"} )
      => /\ Executed(w)
         /\ ( /\ Applied(w)
              /\ Cardinality({ v \in WebhookSlots \ {w} :
                                 Accepted(v) /\ Applied(v) /\ ChargeOf(v) = ChargeOf(w) }) <= 1 )
              => \A id \in RowsOfCharge(ChargeOf(w)) \ {SeedTransaction.id} :
                   transactions[id].status = StatusFor(w)

\* C25: the body of every response sent, of every route and of every
\* status, has a boolean field success.
C25_EveryResponseHasSuccess ==
  \A response \in Responses :
    /\ "success" \in DOMAIN response.body
    /\ response.body.success \in BOOLEAN

\* The query parameter is present.
Given(param) == IsString(param)

\* The number the text of a present query parameter denotes.
Denoted(param) == CHOOSE n \in ParseRange : ToString(n) = param.string

\* The limit asked for is above 100 or below 1, or the page is below 1.
OutOfRange(query) ==
  \/ Given(query.limit) /\ (Denoted(query.limit) > 100 \/ Denoted(query.limit) < 1)
  \/ Given(query.page) /\ Denoted(query.page) < 1

\* Slot r holds a GET /transactions request.
IsList(r) == reads[r].pc # "idle" /\ reads[r].kind = "list"

\* The transactions the filters of a query select.
Selected(query) ==
  { id \in DOMAIN transactions :
      /\ Given(query.status) => transactions[id].status = query.status.string
      /\ Given(query.email) => transactions[id].email = query.email.string }

Min(a, b) == IF a < b THEN a ELSE b

Max(a, b) == IF a > b THEN a ELSE b

\* C26: a GET /transactions request whose limit is above 100 or below 1
\* (0 included), or whose page is below 1 (0 included), is answered 400 with
\* no query handed to the store; every other request is not answered 400.
C26_OutOfRangeRejected ==
  \A r \in ReadSlots :
    IsList(r)
      => IF OutOfRange(reads[r].query)
         THEN /\ reads[r].pc = "done"
              /\ reads[r].response[1].status = 400
              /\ IsNull(reads[r].rows) /\ IsNull(reads[r].count)
         ELSE reads[r].pc = "done" => reads[r].response[1].status # 400

\* C27: over a store that does not change, a GET /transactions request with
\* page p and limit l in range (1 and 10 when absent) that is answered 200,
\* N transactions matching its filters, returns min(l, max(0, N - (p-1)*l))
\* items, total N, totalPages the least k with k*l >= N, hasNext exactly when
\* p < totalPages and hasPrev exactly when p > 1.
C27_PageArithmetic ==
  \A r \in ReadSlots :
    ( /\ IsList(r) /\ reads[r].pc = "done"
      /\ reads[r].response[1].status = 200
      /\ ~ OutOfRange(reads[r].query) )
      => LET query == reads[r].query
             p == IF Given(query.page) THEN Denoted(query.page) ELSE 1
             l == IF Given(query.limit) THEN Denoted(query.limit) ELSE 10
             N == Cardinality(Selected(query))
             pages == CHOOSE k \in 0..N : k * l >= N /\ (k = 0 \/ (k - 1) * l < N)
             data == reads[r].response[1].body.data
         IN  /\ Len(data.transactions) = Min(l, Max(0, N - (p - 1) * l))
             /\ data.pagination.total = N
             /\ data.pagination.totalPages = pages
             /\ data.pagination.hasNext = (p < pages)
             /\ data.pagination.hasPrev = (p > 1)

C27_Witness ==
  \E r \in ReadSlots :
    /\ IsList(r) /\ reads[r].pc = "done"
    /\ reads[r].response[1].status = 200
    /\ reads[r].query.page = String("2") /\ reads[r].query.limit = String("10")
    /\ Cardinality(Selected(reads[r].query)) = 25
    /\ LET data == reads[r].response[1].body.data
       IN  /\ Len(data.transactions) = 10
           /\ data.pagination.totalPages = 3
           /\ data.pagination.hasNext /\ data.pagination.hasPrev

\* The rows the SELECT of list request r returned.
RowsOf(r) == reads[r].rows[1].rows

IdsOf(r) == { RowsOf(r)[i].id : i \in 1..Len(RowsOf(r)) }

\* The SELECT of list request r has returned its rows.
Listed(r) == IsList(r) /\ ~ IsNull(reads[r].rows) /\ reads[r].rows[1].ok

\* Request r asks for the page after the one of request q, with the same
\* limit and the same filters.
Successive(q, r) ==
  /\ reads[r].page = reads[q].page + 1
  /\ reads[r].limit = reads[q].limit
  /\ reads[r].query.status = reads[q].query.status
  /\ reads[r].query.email = reads[q].query.email

\* C28: over a store that does not change, the rows a list request returns
\* match each filter given and are in non-increasing created_at order; a
\* request for the following page returns none of the transactions of the
\* page before, and pages 1 and 2 together return the first 2 * limit
\* matching transactions (all of them when there are no more).
C28_PagesAreStable ==
  /\ \A r \in ReadSlots :
       Listed(r)
         => /\ IdsOf(r) \subseteq Selected(reads[r].query)
            /\ \A i, j \in 1..Len(RowsOf(r)) :
                 i < j => RowsOf(r)[i].created_at >= RowsOf(r)[j].created_at
  /\ \A q, r \in ReadSlots :
       (Listed(q) /\ Listed(r) /\ Successive(q, r))
         => /\ IdsOf(q) \cap IdsOf(r) = {}
            /\ reads[q].page = 1
                 => Cardinality(IdsOf(q) \cup IdsOf(r)) =
                      Min(2 * reads[q].limit, Cardinality(Selected(reads[q].query)))

\* Slot r holds a GET /health request.
IsHealth(r) == reads[r].pc # "idle" /\ reads[r].kind = "health"

\* The number of stored transactions of a status.
CountOf(status) == Cardinality({ id \in DOMAIN transactions : transactions[id].status = status })

\* This step is the database executing the aggregate query of request r.
CountsNow(r) ==
  /\ IsHealth(r)
  /\ reads[r].pc = "stats"
  /\ reads'[r].pc = "respond"
  /\ reads'[r].result[1].ok

\* C29: the counts of a health response are those the aggregate query
\* returned, and the aggregate query returns the counts of the store of the
\* one step in which it executes, between the arrival of the request and its
\* response, whatever checkouts and webhooks do before and after: total is
\* the number of transactions of that store, pending, completed and failed
\* the numbers of its transactions of that status, and their sum is at most
\* total.
C29_StatsAreOneSnapshot ==
  [][ \A r \in ReadSlots :
        /\ CountsNow(r)
             => LET stats == reads'[r].result[1].stats
                IN  /\ stats.total = Cardinality(DOMAIN transactions)
                    /\ stats.pending = Some(CountOf("pending"))
                    /\ stats.completed = Some(CountOf("completed"))
                    /\ stats.failed = Some(CountOf("failed"))
                    /\ stats.pending[1] + stats.completed[1] + stats.failed[1] <= stats.total
                    /\ transactions' = transactions
        /\ (IsHealth(r) /\ reads[r].pc = "respond" /\ reads'[r].pc = "done" /\ reads[r].result[1].ok)
             => /\ reads'[r].response[1].status = 200
                /\ reads'[r].response[1].body.transactions = reads[r].result[1].stats
        /\ (IsHealth(r) /\ reads[r].pc = "respond")
             => reads'[r].result = reads[r].result ]_vars

C29_Witness ==
  \E r \in ReadSlots, c \in CheckoutSlots, w \in WebhookSlots :
    /\ IsHealth(r) /\ reads[r].pc = "done"
    /\ reads[r].response[1].body.database = "connected"
    /\ reads[r].response[1].body.transactions =
         [total |-> 2, pending |-> Some(1), completed |-> Some(1), failed |-> Some(0)]
    /\ checkouts[c].pc = "done" /\ checkouts[c].response[1].status = 200
    /\ Answered(w, 200) /\ Applied(w) /\ TypeOf(w) = "charge:failed"
    /\ CountOf("failed") = 1

LookedUp(r, kind) ==
  /\ reads[r].pc # "idle" /\ reads[r].kind = kind
  /\ ~ IsNull(reads[r].result) /\ reads[r].result[1].ok

\* C31: a lookup whose SELECT executed returns null when no row has the id
\* (the charge id) asked for and a stored row having it otherwise, and GET
\* /api/transactions/{id} then answers 404 for an id no row has and 200 with
\* the stored row for an id a row has.
C31_AbsenceIsAValue ==
  \A r \in ReadSlots :
    /\ LookedUp(r, "get")
         => LET id == reads[r].id
                value == reads[r].result[1].value
            IN  /\ id \notin DOMAIN transactions
                     => /\ value = NULL
                        /\ reads[r].pc = "done" => reads[r].response[1].status = 404
                /\ id \in DOMAIN transactions
                     => /\ value = Some(transactions[id])
                        /\ reads[r].pc = "done"
                             => /\ reads[r].response[1].status = 200
                                /\ reads[r].response[1].body.data = transactions[id]
    /\ LookedUp(r, "find")
         => LET value == reads[r].result[1].value
            IN  IF RowsOfCharge(reads[r].chargeId) = {}
                THEN value = NULL
                ELSE \E id \in RowsOfCharge(reads[r].chargeId) : value = Some(transactions[id])

C31_Witness ==
  \E q, r \in ReadSlots :
    /\ LookedUp(q, "get") /\ reads[q].pc = "done"
    /\ reads[q].id \notin DOMAIN transactions
    /\ reads[q].response[1].status = 404
    /\ LookedUp(r, "find")
    /\ reads[r].chargeId = ForeignCharge
    /\ reads[r].result[1].value = NULL

\* The instant an ISO 8601 text denotes (new Date(text)): the provider stamps
\* its events with the first instant of the model.
DateParse(text) == IF text = IsoDate THEN Some(0) ELSE NULL

\* C32: when the UPDATE of a charge:confirmed delivery executes, confirmed_at
\* of the transactions of its charge id becomes the instant the payload's
\* created_at denotes, and the instant of processing only when the payload
\* has no created_at.
C32_ConfirmedAtIsEventTime ==
  [][ \A w \in WebhookSlots :
        (ExecutesNow(w) /\ TypeOf(w) = "charge:confirmed")
          => \A id \in RowsOfCharge(ChargeOf(w)) :
               transactions'[id].confirmed_at =
                 IF IsNull(webhooks[w].body.created_at)
                 THEN Some(webhooks[w].query[1].updated_at)
                 ELSE DateParse(webhooks[w].body.created_at[1]) ]_vars

\* The payload of delivery w lacks a required field, or its created_at is no
\* date, or its type is none of the three the schema lists.
InvalidPayload(w) ==
  \/ \E f \in RequiredFields : IsNull(webhooks[w].body[f])
  \/ webhooks[w].body.created_at # Some(IsoDate)
  \/ webhooks[w].body.type[1] \notin {"charge:created", "charge:confirmed", "charge:failed"}

\* C33: a delivery with an invalid signature and an invalid payload is
\* answered 401, one with a valid signature and an invalid payload 400, and a
\* delivery that failed either check has had no UPDATE handed to the store.
C33_AuthenticateValidateApply ==
  \A w \in WebhookSlots :
    Started(w)
      => /\ (BadSignature(w) /\ InvalidPayload(w)) => Answered(w, 401)
         /\ (GoodSignature(w) /\ InvalidPayload(w)) => Answered(w, 400)
         /\ (BadSignature(w) \/ InvalidPayload(w))
              => IsNull(webhooks[w].query) /\ IsNull(webhooks[w].result)

C33_Witness ==
  \E v, w \in WebhookSlots :
    /\ BadSignature(w) /\ InvalidPayload(w) /\ IsNull(webhooks[w].body.id)
    /\ Answered(w, 401) /\ IsNull(webhooks[w].query)
    /\ GoodSignature(v) /\ InvalidPayload(v) /\ Answered(v, 400)

\* Checkout c has been answered 200.
Succeeded(c) == checkouts[c].pc = "done" /\ checkouts[c].response[1].status = 200

CheckoutRows == DOMAIN transactions \ {SeedTransaction.id}

\* C35: the status of every transaction inserted by a checkout is pending,
\* completed or failed, never expired, and no UPDATE handed to the store
\* writes another status than completed or failed.
C35_NeverExpired ==
  /\ \A id \in CheckoutRows : transactions[id].status \in {"pending", "completed", "failed"}
  /\ \A w \in WebhookSlots :
       (Started(w) /\ ~ IsNull(webhooks[w].query))
         => webhooks[w].query[1].status \in {"completed", "failed"}

C35_Witness ==
  \E v, w \in WebhookSlots, c \in CheckoutSlots :
    /\ Succeeded(c)
    /\ Applied(v) /\ TypeOf(v) = "charge:confirmed" /\ Answered(v, 200)
    /\ Applied(w) /\ TypeOf(w) = "charge:failed" /\ Answered(w, 200)
    /\ ChargeOf(v) = checkouts[c].coinbaseCharge[1].id
    /\ ChargeOf(w) = checkouts[c].coinbaseCharge[1].id
    /\ transactions[checkouts[c].transaction[1].id].status = "failed"

\* An accepted delivery of this type for this charge id whose UPDATE was
\* applied to a stored transaction.
AppliedTo(chargeId, type) ==
  \E w \in WebhookSlots :
    /\ Accepted(w) /\ TypeOf(w) = type
    /\ webhooks[w].body.chargeId = chargeId
    /\ Applied(w)

\* The status of transaction id is the one the deliveries applied to it
\* account for.
StatusHasItsWebhook(id) ==
  LET row == transactions[id]
  IN  /\ row.status = "completed" => AppliedTo(row.coinbase_charge_id, "charge:confirmed")
      /\ row.status = "failed" => AppliedTo(row.coinbase_charge_id, "charge:failed")
      /\ ( /\ ~ AppliedTo(row.coinbase_charge_id, "charge:confirmed")
           /\ ~ AppliedTo(row.coinbase_charge_id, "charge:failed") )
           => row.status = "pending"

\* C36: a transaction inserted by a checkout that is completed (failed) has
\* had the UPDATE of an accepted charge:confirmed (charge:failed) delivery for
\* its charge id applied to it, hence after its INSERT; one to which no such
\* UPDATE was applied, because every delivery for its charge id executed
\* before the INSERT, is pending; and a step that changes its status is the
\* UPDATE of an accepted delivery for its charge id executing.
C36_LeavesPendingByWebhookOnly ==
  [][ \A id \in DOMAIN transactions' \ {SeedTransaction.id} :
        /\ StatusHasItsWebhook(id)'
        /\ (id \in DOMAIN transactions /\ transactions'[id].status # transactions[id].status)
             => \E w \in WebhookSlots :
                  /\ ExecutesNow(w) /\ Accepted(w)
                  /\ webhooks[w].body.chargeId = transactions[id].coinbase_charge_id
                  /\ transactions'[id].status = StatusFor(w)
        /\ id \notin DOMAIN transactions => transactions'[id].status = "pending" ]_vars

C36_Witness ==
  \E w \in WebhookSlots, c \in CheckoutSlots :
    /\ Succeeded(c)
    /\ Accepted(w) /\ TypeOf(w) = "charge:confirmed" /\ Answered(w, 200)
    /\ ChargeOf(w) = checkouts[c].coinbaseCharge[1].id
    /\ Executed(w) /\ webhooks[w].result[1].affectedRows = 0
    /\ transactions[checkouts[c].transaction[1].id].status = "pending"

\* C37: the items of every list response are at most those its total leaves
\* for its page, total - (page-1)*limit (none when that is negative), also
\* when a checkout's INSERT executes while the request is in flight.
C37_PageWithinTotal ==
  \A r \in ReadSlots :
    (IsList(r) /\ reads[r].pc = "done" /\ reads[r].response[1].status = 200)
      => LET data == reads[r].response[1].body.data
             page == data.pagination.page
             limit == data.pagination.limit
         IN  Len(data.transactions) <= Max(0, data.pagination.total - (page - 1) * limit)

\* The createConnection calls that have returned a connection.
Returned == {k \in DOMAIN connections : connections[k].pc = "returned"}

\* C38: a TransactionService instance opens at most one connection and never
\* replaces its db handle once set: however the constructor's initialization
\* interleaves with operations that call ensureConnection before it has
\* finished, createConnection succeeds at most once, a set handle stays what
\* it is, and no query is issued while the handle is unset.
C38_OneConnectionNeverReplaced ==
  [][ /\ Cardinality(Returned') <= 1
      /\ service.db # NULL => service'.db = service.db
      /\ \A o \in OperationSlots :
           operations'[o].pc = "query" => operations'[o].db # NULL ]_vars

\* A createConnection call that has returned or thrown.
Settled(call) == call.pc \in {"returned", "thrown"}

\* What a createConnection call has done so far: never more than maxRetries
\* attempts; after failed attempt k < maxRetries it waited initialDelay *
\* 2^(k-1) ms, once; it returned the connection of the first attempt that did
\* not fail; it threw the error of attempt maxRetries, having waited only
\* between attempts.
RetryShape(call) ==
  /\ call.attempt <= call.maxRetries
  /\ Len(call.waits) = IF call.pc = "waiting" THEN call.attempt
                       ELSE Max(0, call.attempt - 1)
  /\ \A k \in 1..Len(call.waits) : call.waits[k] = call.initialDelay * 2 ^ (k - 1)
  /\ call.pc = "returned" =>
       /\ call.connection # NULL
       /\ call.lastError = IF call.attempt = 1 THEN NULL ELSE Some(call.attempt - 1)
  /\ call.pc = "thrown" /\ call.maxRetries >= 1 =>
       /\ call.attempt = call.maxRetries
       /\ call.lastError = Some(call.maxRetries)

\* C39: createConnection terminates after at most maxRetries attempts: it
\* returns the connection of the first successful attempt and makes no
\* further attempt, it throws the error of the last attempt when all
\* maxRetries attempts fail, it waits initialDelay * 2^(k-1) ms between failed
\* attempt k and attempt k+1, and it does not wait after the final failure.
C39_RetriesThenSettles ==
  /\ [](\A k \in DOMAIN connections : RetryShape(connections[k]))
  /\ [][\A k \in DOMAIN connections :
          Settled(connections[k]) => connections'[k] = connections[k]]_vars
  /\ <>(\A k \in DOMAIN connections : Settled(connections[k]))

\* A call with the default arguments has failed ten times and thrown, having
\* waited nine times, 256 s the last time.
C39_Witness ==
  \E k \in DOMAIN connections :
    /\ connections[k].pc = "thrown"
    /\ connections[k].maxRetries = DefaultMaxRetries
    /\ connections[k].initialDelay = DefaultInitialDelay
    /\ Len(connections[k].waits) = 9
    /\ connections[k].waits[9] = 256000

====
